---- MODULE Spec2Model ----
(***************************************************************************)
(* Task Board Control Plane of agentcontrol/scripts/lib/sdklib/task_cli.py *)
(* Concurrent command invocations (processes) over the three store         *)
(* documents (board, assignment state, event log), serialised by one       *)
(* advisory file lock.                                                     *)
(***************************************************************************)
EXTENDS Integers, Sequences, FiniteSets, TLC

(* ---------------------------------------------------------------- bounds *)
\* successful mutating commands per behaviour (each appends one event)
MaxLog == 2
\* the events in the log of MetricsSpec
MaxHistory == 4
\* the events read_history hands to the metrics pass: 500 in compute_metrics,
\* scaled to the logs of MetricsSpec
HistoryLimit == 3
\* the tasks on the boards IdSpec starts from
MaxBoard == 2

(* ------------------------------------------------------------- constants *)
STATUS_ORDER == <<"in_progress", "review", "ready", "backlog", "blocked", "done">>
DEFAULT_OWNER == "unassigned"
\* Python's None where a string is expected (an absent previous_owner)
None == "None"
\* an absent or empty id argument ("not value" holds of both)
NoId == <<>>
UnknownRank == 99
PadWidth == 3

\* task ids are strings, modelled as sequences of one-character strings
T1 == <<"T", "-", "0", "0", "1">>
T2 == <<"T", "-", "0", "0", "2">>
T3 == <<"T", "-", "0", "0", "3">>
\* an id that is never on the board (a dangling reference)
TX == <<"T", "-", "x">>

Procs == {"p1", "p2"}
Agents == {"a", "b"}

(* -------------------------------------------------------- small helpers *)
\* dict.get(key, default)
Get(d, key, default) == IF key \in DOMAIN d THEN d[key] ELSE default

\* dict.pop(key, None)
Pop(d, key) == [k \in (DOMAIN d) \ {key} |-> d[k]]

\* d[key] = value
Put(d, key, value) == [k \in (DOMAIN d) \cup {key} |-> IF k = key THEN value ELSE d[k]]

EmptyDict == [k \in {} |-> None]

(* ------------------------------------------------------ ranking policy *)
PRIORITY_RANK(p) ==
  CASE p = "P0" -> 0
    [] p = "P1" -> 1
    [] p = "P2" -> 2
    [] p = "P3" -> 3
    [] OTHER -> UnknownRank

priority_rank(task) == PRIORITY_RANK(task.priority)

status_rank(task) ==
  IF \E i \in DOMAIN STATUS_ORDER : STATUS_ORDER[i] = task.status
  THEN (CHOOSE i \in DOMAIN STATUS_ORDER : STATUS_ORDER[i] = task.status) - 1
  ELSE UnknownRank

(* ------------------------------------------------------------ records *)
\* a task of the board document; every optional field is present on disk
Task(id, status, priority, owner, deps, confl, blockers) ==
  [id |-> id, status |-> status, priority |-> priority, owner |-> owner,
   dependencies |-> deps, conflicts |-> confl, blockers |-> blockers,
   comments |-> <<>>]

\* setdefault on every optional field: the boards of the model hold every
\* field, so nothing is filled in
normalize_task(task) == task

\* the session of one invocation: the loaded documents, the event buffer and
\* the dirty flags
NewSession(board, assignments) ==
  [board |-> board, assignments |-> assignments, events |-> <<>>,
   board_dirty |-> FALSE, state_dirty |-> FALSE]

\* a board document and an assignment document that do not parse: a write
\* that stopped half way
TornBoard == <<[torn |-> TRUE]>>

TornState == [k \in {<<"torn">>} |-> "torn"]

\* read_json: the parsed document, the default when it does not parse
read_json(doc, torn, default) == IF doc = torn THEN default ELSE doc

\* TaskSession.__post_init__: load the board, normalise the tasks, drop the
\* overlay entries whose task id is not on the board
LoadSession(boardFile, stateFile) ==
  LET tasks == read_json(boardFile, TornBoard, <<>>)
      assignments == read_json(stateFile, TornState, EmptyDict)
      board == [i \in DOMAIN tasks |-> normalize_task(tasks[i])]
      valid_ids == {board[i].id : i \in DOMAIN board}
  IN NewSession(board,
                [k \in (DOMAIN assignments) \cap valid_ids |-> assignments[k]])

\* TaskSession.mapping: id -> task; a later task of the same id wins. The
\* position of the task in the board stands for the reference to it; 0 is
\* "not in the mapping".
TaskIndex(board, task_id) ==
  IF \E i \in DOMAIN board : board[i].id = task_id
  THEN CHOOSE i \in DOMAIN board :
         /\ board[i].id = task_id
         /\ \A j \in DOMAIN board : board[j].id = task_id => j <= i
  ELSE 0

\* tasks_map.get(id, {}).get("status")
StatusOf(board, task_id) ==
  IF TaskIndex(board, task_id) = 0 THEN None
  ELSE board[TaskIndex(board, task_id)].status

\* session.assignments.get(id, task.get("owner", DEFAULT_OWNER))
EffectiveOwner(assignments, task) == Get(assignments, task.id, task.owner)

mark_board_dirty(s) == [s EXCEPT !.board_dirty = TRUE]

mark_state_dirty(s) == [s EXCEPT !.state_dirty = TRUE]

\* update_assignment that stores the sentinel like any other owner
update_assignment_KeepsSentinel(s, task_id, owner) ==
  mark_state_dirty([s EXCEPT !.assignments = Put(@, task_id, owner)])

update_assignment(s, task_id, owner) ==
  mark_state_dirty(
    [s EXCEPT !.assignments = IF owner = DEFAULT_OWNER
                              THEN Pop(@, task_id)
                              ELSE Put(@, task_id, owner)])

\* append_log_event that buffers the event twice
append_log_event_Twice(s, action, task, agent, note, previous_owner) ==
  LET event == [action |-> action, task |-> task, agent |-> agent,
                note |-> note, previous_owner |-> previous_owner]
  IN [s EXCEPT !.events = Append(Append(@, event), event)]

\* previous_owner = None: the event carries no previous_owner key
append_log_event(s, action, task, agent, note, previous_owner) ==
  [s EXCEPT !.events = Append(@, [action |-> action, task |-> task,
                                   agent |-> agent, note |-> note,
                                   previous_owner |-> previous_owner])]

\* the outcome of a command body: the session as the body left it, the error
\* it raised ("ok": none) and the task it reports
Outcome(s, error, out) == [session |-> s, error |-> error, out |-> out]

Fail(s, error) == Outcome(s, error, NoId)

(* ----------------------------------------------------------- assign_task *)
\* BlockingConflicts that does not look at who holds the conflicting task
BlockingConflicts_AnyOwner(s, task, agent) ==
  LET Blocks(conflict_id) ==
        LET c == TaskIndex(s.board, conflict_id) IN
        c # 0 /\ s.board[c].status \in {"in_progress", "review"}
  IN SelectSeq(task.conflicts, Blocks)

\* the conflicts of the task that block the agent
BlockingConflicts(s, task, agent) ==
  LET Blocks(conflict_id) ==
        LET c == TaskIndex(s.board, conflict_id) IN
        /\ c # 0
        /\ s.board[c].status \in {"in_progress", "review"}
        /\ Get(s.assignments, conflict_id, s.board[c].owner)
             \notin {None, DEFAULT_OWNER, agent}
  IN SelectSeq(task.conflicts, Blocks)

\* DependencyGate without the exception for a dependency the agent holds
RECURSIVE DependencyGate_AnyHolder(_, _, _, _, _)
DependencyGate_AnyHolder(s, deps, agent, force, k) ==
  IF k > Len(deps) THEN "ok"
  ELSE LET d == TaskIndex(s.board, deps[k]) IN
       IF d = 0 THEN "MissingDependency"
       ELSE IF s.board[d].status \notin {"done", "review"} /\ ~force
            THEN "DependencyNotReady"
            ELSE DependencyGate_AnyHolder(s, deps, agent, force, k + 1)

\* the dependency loop: the error of the first dependency that raises
RECURSIVE DependencyGate(_, _, _, _, _)
DependencyGate(s, deps, agent, force, k) ==
  IF k > Len(deps) THEN "ok"
  ELSE LET d == TaskIndex(s.board, deps[k]) IN
       IF d = 0 THEN "MissingDependency"
       ELSE IF /\ s.board[d].status \notin {"done", "review"}
               /\ Get(s.assignments, deps[k], None) # agent
               /\ ~force
            THEN "DependencyNotReady"
            ELSE DependencyGate(s, deps, agent, force, k + 1)

Promote(status) ==
  IF status \in {"backlog", "ready", "blocked"} THEN "in_progress" ELSE status

\* assign_task that records the new owner before it checks the dependencies
assign_task_OwnerFirst(s, task_id, agent, note, action, force) ==
  LET i == TaskIndex(s.board, task_id) IN
  IF i = 0 THEN Fail(s, "TaskNotFound")
  ELSE
    LET task == s.board[i]
        previous_owner == Get(s.assignments, task_id, task.owner)
        s1 == update_assignment(s, task_id, agent)
    IN
    IF task.status = "done" /\ ~force THEN Fail(s, "AlreadyComplete")
    ELSE IF BlockingConflicts(s, task, agent) # <<>> /\ ~force
         THEN Fail(s, "ConflictBlocked")
    ELSE IF DependencyGate(s, task.dependencies, agent, force, 1) # "ok"
         THEN Fail(s1, DependencyGate(s, task.dependencies, agent, force, 1))
    ELSE
      LET s2 == [s1 EXCEPT !.board[i].owner = agent,
                           !.board[i].status = Promote(@)]
          s3 == mark_board_dirty(s2)
      IN Outcome(append_log_event(s3, action, task_id, agent, note, previous_owner),
                 "ok", task_id)

\* assign_task whose completion check ignores force
assign_task_DoneAlwaysFails(s, task_id, agent, note, action, force) ==
  LET i == TaskIndex(s.board, task_id) IN
  IF i = 0 THEN Fail(s, "TaskNotFound")
  ELSE
    LET task == s.board[i] IN
    IF task.status = "done" THEN Fail(s, "AlreadyComplete")
    ELSE IF BlockingConflicts(s, task, agent) # <<>> /\ ~force
         THEN Fail(s, "ConflictBlocked")
    ELSE IF DependencyGate(s, task.dependencies, agent, force, 1) # "ok"
         THEN Fail(s, DependencyGate(s, task.dependencies, agent, force, 1))
    ELSE
      LET previous_owner == Get(s.assignments, task_id, task.owner)
          s1 == update_assignment(s, task_id, agent)
          s2 == [s1 EXCEPT !.board[i].owner = agent,
                           !.board[i].status = Promote(@)]
          s3 == mark_board_dirty(s2)
      IN Outcome(append_log_event(s3, action, task_id, agent, note, previous_owner),
                 "ok", task_id)

\* assign_task without the completion check
assign_task_NoDoneCheck(s, task_id, agent, note, action, force) ==
  LET i == TaskIndex(s.board, task_id) IN
  IF i = 0 THEN Fail(s, "TaskNotFound")
  ELSE
    LET task == s.board[i] IN
    IF BlockingConflicts(s, task, agent) # <<>> /\ ~force
    THEN Fail(s, "ConflictBlocked")
    ELSE IF DependencyGate(s, task.dependencies, agent, force, 1) # "ok"
         THEN Fail(s, DependencyGate(s, task.dependencies, agent, force, 1))
    ELSE
      LET previous_owner == Get(s.assignments, task_id, task.owner)
          s1 == update_assignment(s, task_id, agent)
          s2 == [s1 EXCEPT !.board[i].owner = agent,
                           !.board[i].status = Promote(@)]
          s3 == mark_board_dirty(s2)
      IN Outcome(append_log_event(s3, action, task_id, agent, note, previous_owner),
                 "ok", task_id)

assign_task(s, task_id, agent, note, action, force) ==
  LET i == TaskIndex(s.board, task_id) IN
  IF i = 0 THEN Fail(s, "TaskNotFound")
  ELSE
    LET task == s.board[i] IN
    IF task.status = "done" /\ ~force THEN Fail(s, "AlreadyComplete")
    ELSE IF BlockingConflicts(s, task, agent) # <<>> /\ ~force
         THEN Fail(s, "ConflictBlocked")
    ELSE IF DependencyGate(s, task.dependencies, agent, force, 1) # "ok"
         THEN Fail(s, DependencyGate(s, task.dependencies, agent, force, 1))
    ELSE
      LET previous_owner == Get(s.assignments, task_id, task.owner)
          s1 == update_assignment(s, task_id, agent)
          s2 == [s1 EXCEPT !.board[i].owner = agent,
                           !.board[i].status = Promote(@)]
          s3 == mark_board_dirty(s2)
      IN Outcome(append_log_event(s3, action, task_id, agent, note, previous_owner),
                 "ok", task_id)

(* ------------------------------------------- release, complete, comment *)
\* release_task that sends the task back to ready whatever its status
release_task_DemotesAny(s, task_id, note) ==
  LET i == TaskIndex(s.board, task_id) IN
  IF i = 0 THEN Fail(s, "TaskNotFound")
  ELSE
    LET task == s.board[i]
        previous_owner == Get(s.assignments, task_id, task.owner)
        s1 == update_assignment(s, task_id, DEFAULT_OWNER)
        s2 == [s1 EXCEPT !.board[i].owner = DEFAULT_OWNER,
                         !.board[i].status = "ready"]
        s3 == mark_board_dirty(s2)
    IN Outcome(append_log_event(s3, "release", task_id,
                                IF previous_owner \in {None, ""}
                                THEN DEFAULT_OWNER ELSE previous_owner,
                                note, None),
               "ok", task_id)

\* release_task that returns at once when there is nothing to release
release_task_SilentWhenIdle(s, task_id, note) ==
  LET i == TaskIndex(s.board, task_id) IN
  IF i = 0 THEN Fail(s, "TaskNotFound")
  ELSE
    LET task == s.board[i]
        previous_owner == Get(s.assignments, task_id, task.owner)
        s1 == update_assignment(s, task_id, DEFAULT_OWNER)
        s2 == [s1 EXCEPT !.board[i].owner = DEFAULT_OWNER,
                         !.board[i].status = IF @ = "in_progress" THEN "ready" ELSE @]
        s3 == mark_board_dirty(s2)
    IN IF previous_owner = DEFAULT_OWNER /\ task.status # "in_progress"
       THEN Outcome(s, "ok", task_id)
       ELSE Outcome(append_log_event(s3, "release", task_id,
                                     IF previous_owner \in {None, ""}
                                     THEN DEFAULT_OWNER ELSE previous_owner,
                                     note, None),
                    "ok", task_id)

release_task(s, task_id, note) ==
  LET i == TaskIndex(s.board, task_id) IN
  IF i = 0 THEN Fail(s, "TaskNotFound")
  ELSE
    LET task == s.board[i]
        previous_owner == Get(s.assignments, task_id, task.owner)
        s1 == update_assignment(s, task_id, DEFAULT_OWNER)
        s2 == [s1 EXCEPT !.board[i].owner = DEFAULT_OWNER,
                         !.board[i].status = IF @ = "in_progress" THEN "ready" ELSE @]
        s3 == mark_board_dirty(s2)
    IN Outcome(append_log_event(s3, "release", task_id,
                                IF previous_owner \in {None, ""}
                                THEN DEFAULT_OWNER ELSE previous_owner,
                                note, None),
               "ok", task_id)

\* complete_task that leaves the status of the task as it was
complete_task_StatusKept(s, task_id, agent, note) ==
  LET i == TaskIndex(s.board, task_id) IN
  IF i = 0 THEN Fail(s, "TaskNotFound")
  ELSE
    LET task == s.board[i]
        previous_owner == Get(s.assignments, task_id, task.owner)
        s1 == update_assignment(s, task_id, DEFAULT_OWNER)
        s2 == [s1 EXCEPT !.board[i].owner = agent]
        s3 == mark_board_dirty(s2)
    IN Outcome(append_log_event(s3, "complete", task_id, agent, note, previous_owner),
               "ok", task_id)

\* complete_task that leaves the overlay entry of the task as it was
complete_task_OverlayKept(s, task_id, agent, note) ==
  LET i == TaskIndex(s.board, task_id) IN
  IF i = 0 THEN Fail(s, "TaskNotFound")
  ELSE
    LET task == s.board[i]
        previous_owner == Get(s.assignments, task_id, task.owner)
        s2 == [s EXCEPT !.board[i].owner = agent,
                        !.board[i].status = "done"]
        s3 == mark_board_dirty(s2)
    IN Outcome(append_log_event(s3, "complete", task_id, agent, note, previous_owner),
               "ok", task_id)

\* complete_task that leaves the stored owner of the task as it was
complete_task_OwnerKept(s, task_id, agent, note) ==
  LET i == TaskIndex(s.board, task_id) IN
  IF i = 0 THEN Fail(s, "TaskNotFound")
  ELSE
    LET task == s.board[i]
        previous_owner == Get(s.assignments, task_id, task.owner)
        s1 == update_assignment(s, task_id, DEFAULT_OWNER)
        s2 == [s1 EXCEPT !.board[i].status = "done"]
        s3 == mark_board_dirty(s2)
    IN Outcome(append_log_event(s3, "complete", task_id, agent, note, previous_owner),
               "ok", task_id)

complete_task(s, task_id, agent, note) ==
  LET i == TaskIndex(s.board, task_id) IN
  IF i = 0 THEN Fail(s, "TaskNotFound")
  ELSE
    LET task == s.board[i]
        previous_owner == Get(s.assignments, task_id, task.owner)
        s1 == update_assignment(s, task_id, DEFAULT_OWNER)
        s2 == [s1 EXCEPT !.board[i].owner = agent,
                         !.board[i].status = "done"]
        s3 == mark_board_dirty(s2)
    IN Outcome(append_log_event(s3, "complete", task_id, agent, note, previous_owner),
               "ok", task_id)

comment_task(s, task_id, author, message) ==
  LET i == TaskIndex(s.board, task_id) IN
  IF i = 0 THEN Fail(s, "TaskNotFound")
  ELSE
    LET s1 == [s EXCEPT !.board[i].comments =
                          Append(@, [author |-> author, message |-> message])]
        s2 == mark_board_dirty(s1)
    IN Outcome(append_log_event(s2, "comment", task_id, author, message, None),
               "ok", task_id)

(* -------------------------------------------------------------- grab_task *)
\* tasks.index(t): the first position holding an equal task
FirstIndexOf(board, t) ==
  CHOOSE i \in DOMAIN board :
    board[i] = t /\ \A j \in DOMAIN board : board[j] = t => i <= j

\* KeyBefore whose key leaves out the status rank
KeyBefore_NoStatusRank(board, i, j) ==
  LET ki == <<priority_rank(board[i]), FirstIndexOf(board, board[i])>>
      kj == <<priority_rank(board[j]), FirstIndexOf(board, board[j])>>
  IN \/ ki[1] < kj[1]
     \/ ki[1] = kj[1] /\ ki[2] < kj[2]
     \/ ki = kj /\ i <= j

\* the sort key (priority_rank, status_rank, tasks.index) compared
\* lexicographically; sorted() is stable, so equal keys keep list order
KeyBefore(board, i, j) ==
  LET ki == <<priority_rank(board[i]), status_rank(board[i]), FirstIndexOf(board, board[i])>>
      kj == <<priority_rank(board[j]), status_rank(board[j]), FirstIndexOf(board, board[j])>>
  IN \/ ki[1] < kj[1]
     \/ ki[1] = kj[1] /\ ki[2] < kj[2]
     \/ ki[1] = kj[1] /\ ki[2] = kj[2] /\ ki[3] < kj[3]
     \/ ki = kj /\ i <= j

RECURSIVE SortByKey(_, _)
SortByKey(board, S) ==
  IF S = {} THEN <<>>
  ELSE LET m == CHOOSE i \in S : \A j \in S : KeyBefore(board, i, j)
       IN <<m>> \o SortByKey(board, S \ {m})

\* every task of the board is a candidate
Candidates_WholeBoard(s) == DOMAIN s.board

\* the positions of the workable candidates
Candidates(s) ==
  {i \in DOMAIN s.board :
     /\ s.board[i].status \in {"ready", "backlog"}
     /\ EffectiveOwner(s.assignments, s.board[i]) = DEFAULT_OWNER}

\* a blocking test that looks at the conflicts only
GrabBlocked_ConflictsOnly(s, task) ==
  \E k \in DOMAIN task.conflicts :
    StatusOf(s.board, task.conflicts[k]) \in {"in_progress", "review"}

\* grab's own blocking test of a candidate (it does not look at owners)
GrabBlocked(s, task) ==
  \/ \E k \in DOMAIN task.dependencies :
       StatusOf(s.board, task.dependencies[k]) \notin {"done", "review"}
  \/ \E k \in DOMAIN task.conflicts :
       StatusOf(s.board, task.conflicts[k]) \in {"in_progress", "review"}

\* the loop that skips a blocked candidate also under force
RECURSIVE FirstTaken_ForceIgnored(_, _, _, _)
FirstTaken_ForceIgnored(s, ordered, force, k) ==
  IF k > Len(ordered) THEN 0
  ELSE IF GrabBlocked(s, s.board[ordered[k]])
       THEN FirstTaken_ForceIgnored(s, ordered, force, k + 1)
       ELSE ordered[k]

\* the first candidate, in selection order, that the loop does not skip; 0: none
RECURSIVE FirstTaken(_, _, _, _)
FirstTaken(s, ordered, force, k) ==
  IF k > Len(ordered) THEN 0
  ELSE IF GrabBlocked(s, s.board[ordered[k]]) /\ ~force
       THEN FirstTaken(s, ordered, force, k + 1)
       ELSE ordered[k]

\* grab_task that raises when the loop ends without a task
grab_task_NothingIsError(s, agent, note, force) ==
  LET ordered == SortByKey(s.board, Candidates(s))
      pick == FirstTaken(s, ordered, force, 1)
  IN IF pick = 0 THEN Fail(s, "NoTaskAvailable")
     ELSE assign_task(s, s.board[pick].id, agent, note, "grab", force)

grab_task(s, agent, note, force) ==
  LET ordered == SortByKey(s.board, Candidates(s))
      pick == FirstTaken(s, ordered, force, 1)
  IN IF pick = 0 THEN Outcome(s, "ok", NoId)
     ELSE assign_task(s, s.board[pick].id, agent, note, "grab", force)

(* --------------------------------------------------------------- add_task *)
DigitChars == <<"0", "1", "2", "3", "4", "5", "6", "7", "8", "9">>

IsDigit(c) == \E d \in DOMAIN DigitChars : DigitChars[d] = c

DigitValue(c) == (CHOOSE d \in DOMAIN DigitChars : DigitChars[d] = c) - 1

\* int(text) for a text of letters and digits: -1 stands for ValueError
RECURSIVE ParseInt(_)
ParseInt(text) ==
  IF Len(text) = 0 \/ \E k \in DOMAIN text : ~IsDigit(text[k]) THEN -1
  ELSE IF Len(text) = 1 THEN DigitValue(text[1])
  ELSE 10 * ParseInt(SubSeq(text, 1, Len(text) - 1)) + DigitValue(text[Len(text)])

RECURSIVE Decimal(_)
Decimal(n) ==
  IF n < 10 THEN <<DigitChars[n + 1]>>
  ELSE Decimal(n \div 10) \o <<DigitChars[(n % 10) + 1]>>

RECURSIVE ZeroPad(_, _)
ZeroPad(text, width) ==
  IF Len(text) >= width THEN text ELSE ZeroPad(<<"0">> \o text, width)

\* f"T-{n:03d}"
FormatId(n) == <<"T", "-">> \o ZeroPad(Decimal(n), PadWidth)

StartsWithT(id) == Len(id) >= 2 /\ id[1] = "T" /\ id[2] = "-"

\* the number of tasks on the board in place of the largest number
MaxNum_TaskCount(board) == Len(board)

\* the largest number after "T-" among the ids of the board, 0 when none parses
MaxNum(board) ==
  LET nums == {ParseInt(SubSeq(board[i].id, 3, Len(board[i].id))) :
                 i \in {j \in DOMAIN board : StartsWithT(board[j].id)}}
      good == {n \in nums : n >= 0}
  IN IF good = {} THEN 0 ELSE CHOOSE n \in good : \A m \in good : m <= n

\* add_task without the duplicate check
add_task_NoDuplicateCheck(s, args) ==
  LET next_id == IF args.id = NoId THEN FormatId(MaxNum(s.board) + 1) ELSE args.id
      new_task == normalize_task(
                    Task(next_id, args.status, args.priority, DEFAULT_OWNER,
                         args.dependencies, args.conflicts, args.blockers))
      s1 == [s EXCEPT !.board = Append(@, new_task)]
      s2 == mark_board_dirty(s1)
  IN Outcome(append_log_event(s2, "add", next_id, args.agent, args.note, None),
             "ok", next_id)

\* add_task that puts the new task at the head of the list
add_task_AtHead(s, args) ==
  LET next_id == IF args.id = NoId THEN FormatId(MaxNum(s.board) + 1) ELSE args.id IN
  IF \E i \in DOMAIN s.board : s.board[i].id = next_id
  THEN Fail(s, "DuplicateTaskId")
  ELSE
    LET new_task == normalize_task(
                      Task(next_id, args.status, args.priority, DEFAULT_OWNER,
                           args.dependencies, args.conflicts, args.blockers))
        s1 == [s EXCEPT !.board = <<new_task>> \o @]
        s2 == mark_board_dirty(s1)
    IN Outcome(append_log_event(s2, "add", next_id, args.agent, args.note, None),
               "ok", next_id)

add_task(s, args) ==
  LET next_id == IF args.id = NoId THEN FormatId(MaxNum(s.board) + 1) ELSE args.id IN
  IF \E i \in DOMAIN s.board : s.board[i].id = next_id
  THEN Fail(s, "DuplicateTaskId")
  ELSE
    LET new_task == normalize_task(
                      Task(next_id, args.status, args.priority, DEFAULT_OWNER,
                           args.dependencies, args.conflicts, args.blockers))
        s1 == [s EXCEPT !.board = Append(@, new_task)]
        s2 == mark_board_dirty(s1)
    IN Outcome(append_log_event(s2, "add", next_id, args.agent, args.note, None),
               "ok", next_id)

(* ----------------------------------------------------- read-only commands *)
\* the dependency loop of validate_board without the self-dependency test
RECURSIVE DependencyViolation_NoSelfCheck(_, _, _)
DependencyViolation_NoSelfCheck(task, ids, k) ==
  IF k > Len(task.dependencies) THEN "ok"
  ELSE IF task.dependencies[k] \notin ids THEN "DanglingReference"
  ELSE DependencyViolation_NoSelfCheck(task, ids, k + 1)

\* the dependency loop of validate_board for one task
RECURSIVE DependencyViolation(_, _, _)
DependencyViolation(task, ids, k) ==
  IF k > Len(task.dependencies) THEN "ok"
  ELSE IF task.dependencies[k] = task.id THEN "SelfDependency"
  ELSE IF task.dependencies[k] \notin ids THEN "DanglingReference"
  ELSE DependencyViolation(task, ids, k + 1)

TaskViolation(task, ids) ==
  IF DependencyViolation(task, ids, 1) # "ok" THEN DependencyViolation(task, ids, 1)
  ELSE IF \E k \in DOMAIN task.blockers : task.blockers[k] \notin ids
       THEN "DanglingReference"
  ELSE IF \E k \in DOMAIN task.conflicts : task.conflicts[k] \notin ids
       THEN "DanglingReference"
  ELSE IF task.status = "blocked" /\ task.blockers = <<>> THEN "InvalidBlockedState"
  ELSE "ok"

RECURSIVE BoardViolation(_, _, _)
BoardViolation(board, ids, i) ==
  IF i > Len(board) THEN "ok"
  ELSE IF TaskViolation(board[i], ids) # "ok" THEN TaskViolation(board[i], ids)
  ELSE BoardViolation(board, ids, i + 1)

\* validate_board: the first violation found, "ok" when there is none
validate_board(s) ==
  LET ids == {s.board[i].id : i \in DOMAIN s.board} IN
  IF Len(s.board) # Cardinality(ids) THEN Fail(s, "DuplicateTaskId")
  ELSE IF BoardViolation(s.board, ids, 1) # "ok"
       THEN Fail(s, BoardViolation(s.board, ids, 1))
  ELSE Outcome(s, "ok", NoId)

(* ------------------------------------------------ summary and metrics *)
\* next_task that takes the last of the open candidates
RECURSIVE FirstOpen_FromEnd(_, _, _)
FirstOpen_FromEnd(s, ordered, k) ==
  IF k > Len(ordered) THEN 0
  ELSE LET later == FirstOpen_FromEnd(s, ordered, k + 1)
       IN IF later # 0 THEN later
          ELSE IF GrabBlocked(s, s.board[ordered[k]]) THEN 0 ELSE ordered[k]

\* the blocking test of compute_summary without its conflicts part
SummaryBlocked_ConflictsIgnored(s, task) ==
  \E d \in DOMAIN task.dependencies :
    StatusOf(s.board, task.dependencies[d]) \notin {"done", "review"}

\* the blocking test of compute_summary: an unfinished dependency or a
\* conflicting task at work, whoever holds it
SummaryBlocked(s, task) ==
  \/ \E d \in DOMAIN task.dependencies :
       StatusOf(s.board, task.dependencies[d]) \notin {"done", "review"}
  \/ \E c \in DOMAIN task.conflicts :
       StatusOf(s.board, task.conflicts[c]) \in {"in_progress", "review"}

\* the loop of compute_summary: the first candidate, in selection order, that
\* its blocking test lets through; 0: none
RECURSIVE FirstOpen(_, _, _)
FirstOpen(s, ordered, k) ==
  IF k > Len(ordered) THEN 0
  ELSE IF SummaryBlocked(s, s.board[ordered[k]])
       THEN FirstOpen(s, ordered, k + 1)
       ELSE ordered[k]

\* summary["next_task"] of compute_summary (NoId: the key is absent)
next_task(s) ==
  LET ordered == SortByKey(s.board, Candidates(s))
      pick == FirstOpen(s, ordered, 1)
  IN IF pick = 0 THEN NoId ELSE s.board[pick].id

\* ready_unassigned of compute_metrics: the unowned ready or backlog tasks
\* with no unfinished dependency and no conflicting task at work
ready_unassigned(s) ==
  Cardinality({i \in DOMAIN s.board :
                 /\ s.board[i].status \in {"ready", "backlog"}
                 /\ EffectiveOwner(s.assignments, s.board[i]) = DEFAULT_OWNER
                 /\ ~\E d \in DOMAIN s.board[i].dependencies :
                      StatusOf(s.board, s.board[i].dependencies[d])
                        \notin {"done", "review"}
                 /\ ~\E c \in DOMAIN s.board[i].conflicts :
                      StatusOf(s.board, s.board[i].conflicts[c])
                        \in {"in_progress", "review"}})

\* read_history: the last limit events of the log
read_history(log, limit) ==
  IF limit <= 0 THEN <<>>
  ELSE IF Len(log) <= limit THEN log
  ELSE SubSeq(log, Len(log) - limit + 1, Len(log))

\* the pass that records a sample whatever the order of the two timestamps
RECURSIVE CycleDurations_NoOrderTest(_, _, _, _)
CycleDurations_NoOrderTest(events, k, assign_times, cycle_durations) ==
  IF k > Len(events) THEN cycle_durations
  ELSE LET event == events[k]
           ts == event.timestamp
       IN IF event.action \in {"assign", "grab"}
          THEN CycleDurations_NoOrderTest(events, k + 1,
                 Put(assign_times, event.task, ts), cycle_durations)
          ELSE IF event.action = "release"
          THEN CycleDurations_NoOrderTest(events, k + 1,
                 Pop(assign_times, event.task), cycle_durations)
          ELSE IF event.action = "complete" /\ event.task \in DOMAIN assign_times
          THEN CycleDurations_NoOrderTest(events, k + 1, assign_times,
                 Append(cycle_durations, ts - assign_times[event.task]))
          ELSE CycleDurations_NoOrderTest(events, k + 1, assign_times, cycle_durations)

\* the forward pass of compute_metrics over the events: assign_times is the
\* open map task -> timestamp of its last assign or grab, cycle_durations the
\* samples in hours (timestamps are whole hours); a complete leaves the
\* entry of its task in the map
RECURSIVE CycleDurations(_, _, _, _)
CycleDurations(events, k, assign_times, cycle_durations) ==
  IF k > Len(events) THEN cycle_durations
  ELSE LET event == events[k]
           ts == event.timestamp
       IN IF event.action \in {"assign", "grab"}
          THEN CycleDurations(events, k + 1,
                 Put(assign_times, event.task, ts), cycle_durations)
          ELSE IF event.action = "release"
          THEN CycleDurations(events, k + 1,
                 Pop(assign_times, event.task), cycle_durations)
          ELSE IF /\ event.action = "complete"
                  /\ event.task \in DOMAIN assign_times
                  /\ ts >= assign_times[event.task]
          THEN CycleDurations(events, k + 1, assign_times,
                 Append(cycle_durations, ts - assign_times[event.task]))
          ELSE CycleDurations(events, k + 1, assign_times, cycle_durations)

\* compute_metrics: the next task and the cycle-time samples the average is
\* taken of (no sample: avg_cycle_time_hours is None)
compute_metrics(s, log) ==
  [next_task |-> next_task(s),
   ready_unassigned |-> ready_unassigned(s),
   cycle_durations |-> CycleDurations(read_history(log, HistoryLimit), 1, EmptyDict, <<>>)]

(* ---------------------------------------------------------------- main *)
ReadCommands == {"list", "status", "summary", "conflicts", "history", "metrics", "validate"}
WriteCommands == {"assign", "select", "grab", "release", "complete", "comment", "add"}

\* the mode main opens the session in
ExclusiveFor(command) == command \in WriteCommands

\* the parsed command line, environment fallbacks resolved: the arguments
\* the command reads
Argv(command, task, agent, force) ==
  [command |-> command, task |-> task, agent |-> agent, force |-> force]

CommentLine(task, author, message) ==
  [command |-> "comment", task |-> task, agent |-> author, message |-> message]

\* add: --priority falls back to "P1", --blockers to the empty list; the
\* status is the one given, "backlog" when none is
AddLine(title, id, status, dependencies, conflicts) ==
  [command |-> "add", title |-> title, id |-> id, agent |-> "a",
   status |-> status, priority |-> "P1", blockers |-> <<>>,
   dependencies |-> dependencies, conflicts |-> conflicts, note |-> "add task"]

\* the body main runs inside the session
Body(s, argv) ==
  CASE argv.command \in {"assign", "select"} ->
         IF argv.task = NoId THEN Fail(s, "MissingRequiredArgument")
         ELSE assign_task(s, argv.task, argv.agent, "manual assign", "assign", argv.force)
    [] argv.command = "grab" ->
         grab_task(s, argv.agent, "auto-grab", argv.force)
    [] argv.command = "release" ->
         IF argv.task = NoId THEN Fail(s, "MissingRequiredArgument")
         ELSE release_task(s, argv.task, "release")
    [] argv.command = "complete" ->
         IF argv.task = NoId THEN Fail(s, "MissingRequiredArgument")
         ELSE complete_task(s, argv.task, argv.agent, "complete")
    [] argv.command = "comment" ->
         IF argv.task = NoId \/ argv.message = "" THEN Fail(s, "MissingRequiredArgument")
         ELSE comment_task(s, argv.task, argv.agent, argv.message)
    [] argv.command = "add" ->
         IF argv.title = "" THEN Fail(s, "MissingRequiredArgument")
         ELSE add_task(s, argv)
    [] argv.command = "validate" -> validate_board(s)
    [] OTHER -> Outcome(s, "ok", NoId)

(* ------------------------------------------------------------ the store *)
VARIABLES
  boardFile,   \* the board document: the list of tasks
  stateFile,   \* the assignment document: task id -> owner
  logFile,     \* the event log
  last,        \* Spec: the last invocation: its command line, outcome, store before
  pc,          \* ConcSpec: where each process is in main
  exclusive,   \* ConcSpec: the mode each process asks the lock in
  argv,        \* ConcSpec: the command line of each process
  session,     \* ConcSpec: the session of each process
  result,      \* ConcSpec: the outcome of each process's body
  serial       \* ConcSpec: the store of the one-at-a-time execution

files == <<boardFile, stateFile, logFile>>
procVars == <<pc, exclusive, argv, session, result, serial>>
vars == <<boardFile, stateFile, logFile, last, pc, exclusive, argv, session, result, serial>>

Store == [board |-> boardFile, state |-> stateFile, log |-> logFile]

\* commit that opens the log for writing: the earlier content is lost
commit_RewritesLog(st, s) ==
  [board |-> IF s.board_dirty THEN s.board ELSE st.board,
   state |-> IF s.state_dirty THEN s.assignments ELSE st.state,
   log |-> IF s.events = <<>> THEN st.log ELSE s.events]

\* TaskSession.commit on a store: a document is rewritten when dirty, the
\* buffered events are appended
commit(st, s) ==
  [board |-> IF s.board_dirty THEN s.board ELSE st.board,
   state |-> IF s.state_dirty THEN s.assignments ELSE st.state,
   log |-> st.log \o s.events]

(* ------------------------------------------------------- initial stores *)
\* two unowned workable tasks, every combination of status and priority order
RankBoards ==
  {<<Task(T1, s1, pr[1], DEFAULT_OWNER, <<>>, <<>>, <<>>),
     Task(T2, s2, pr[2], DEFAULT_OWNER, <<>>, <<>>, <<>>)>> :
     s1 \in {"backlog", "ready"}, s2 \in {"backlog", "ready"},
     pr \in {<<"P0", "P1">>, <<"P1", "P0">>, <<"P1", "P1">>}}

\* T1 depends on T2, on a missing task, conflicts with T2, or both of the
\* last two; T2 in the backlog or in review under agent b
RelationBoards ==
  {<<Task(T1, "backlog", "P1", DEFAULT_OWNER, rel[1], rel[2], <<>>),
     Task(T2, t2[1], "P1", t2[2], <<>>, rel[3], <<>>)>> :
     rel \in {<< <<T2>>, <<>>, <<>> >>, << <<TX>>, <<>>, <<>> >>,
              << <<>>, <<T2>>, <<T1>> >>, << <<TX>>, <<T2>>, <<T1>> >>},
     t2 \in {<<"backlog", DEFAULT_OWNER>>, <<"review", "b">>}}

InitBoards == RankBoards \cup RelationBoards

\* the overlay that agrees with the stored owners
OverlayOf(board) ==
  LET owned == {i \in DOMAIN board : board[i].owner # DEFAULT_OWNER}
  IN [id \in {board[i].id : i \in owned} |->
        board[CHOOSE i \in owned : board[i].id = id].owner]

\* no command line, no invocation, no session, no outcome
NoArgv == [command |-> "none"]

NoLast == [argv |-> NoArgv]

NoSession == [events |-> <<>>]

NoResult == [error |-> "none"]

NoStore == [log |-> <<>>]

InitStore(boards) ==
  /\ boardFile \in boards
  /\ stateFile = OverlayOf(boardFile)
  /\ logFile = <<>>

InitProcs ==
  /\ last = NoLast
  /\ pc = [p \in Procs |-> "idle"]
  /\ exclusive = [p \in Procs |-> FALSE]
  /\ argv = [p \in Procs |-> NoArgv]
  /\ session = [p \in Procs |-> NoSession]
  /\ result = [p \in Procs |-> NoResult]

Init == InitStore(InitBoards) /\ InitProcs /\ serial = NoStore

(* -------------------------------------- the command lines the agents give *)
AssignArgv ==
  {Argv("assign", t, a, f) : t \in {T1, T2, T3}, a \in Agents, f \in BOOLEAN}
    \cup {Argv("assign", NoId, "a", FALSE)}

SelectArgv == {Argv("select", t, "b", f) : t \in {T1, T3}, f \in BOOLEAN}

GrabArgv == {Argv("grab", NoId, a, f) : a \in Agents, f \in BOOLEAN}

ReleaseArgv == {Argv("release", t, "", FALSE) : t \in {T1, T2, T3, NoId}}

CompleteArgv ==
  {Argv("complete", t, a, FALSE) : t \in {T1, T2, T3}, a \in Agents}
    \cup {Argv("complete", NoId, "a", FALSE)}

CommentArgv == {CommentLine(t, "a", m) : t \in {T1, T3, NoId}, m \in {"", "m"}}

\* --status, --dependencies, --conflicts of an add: a plain task, one with a
\* dangling dependency, one that depends on T-003, one that conflicts with
\* T-003, one that is blocked, one with a status word of the caller's own
AddShapes ==
  {<<"backlog", <<>>, <<>> >>, <<"backlog", <<TX>>, <<>> >>,
   <<"backlog", <<T3>>, <<>> >>, <<"backlog", <<>>, <<T3>> >>,
   <<"blocked", <<>>, <<>> >>, <<"wip", <<>>, <<>> >>}

AddArgv ==
  {AddLine("t", id, sh[1], sh[2], sh[3]) : id \in {NoId, T1, T3}, sh \in AddShapes}
    \cup {AddLine("", NoId, "backlog", <<>>, <<>>)}

QueryArgv == {[command |-> c] : c \in ReadCommands \ {"validate"}}

ValidateArgv == {[command |-> "validate"]}

(* -------------------------- Spec: one whole invocation is one atomic step *)
\* no invocation is in its session
LockFree == last = NoLast

\* main under the lock: open the session (load), run the body, commit
Invoke(av) ==
  LET r == Body(LoadSession(boardFile, stateFile), av)
      after == commit(Store, r.session)
  IN /\ ExclusiveFor(av.command) => Len(logFile) < MaxLog
     /\ boardFile' = after.board
     /\ stateFile' = after.state
     /\ logFile' = after.log
     /\ last' = [argv |-> av, error |-> r.error, out |-> r.out, before |-> Store]
     /\ UNCHANGED procVars

\* main on a read-only projection: the session is loaded and nothing is
\* written; summary and metrics report the next task, metrics the
\* ready-unassigned count as well
Report(av) ==
  /\ last' = IF av.command = "metrics"
             THEN [argv |-> av, error |-> "ok",
                   out |-> next_task(LoadSession(boardFile, stateFile)),
                   ready_unassigned |->
                     ready_unassigned(LoadSession(boardFile, stateFile)),
                   before |-> Store]
             ELSE [argv |-> av, error |-> "ok",
                   out |-> IF av.command = "summary"
                           THEN next_task(LoadSession(boardFile, stateFile))
                           ELSE NoId,
                   before |-> Store]
  /\ UNCHANGED <<files, procVars>>

Assign == \E av \in AssignArgv : LockFree /\ Invoke(av)
Select == \E av \in SelectArgv : LockFree /\ Invoke(av)
Grab == \E av \in GrabArgv : LockFree /\ Invoke(av)
Release == \E av \in ReleaseArgv : LockFree /\ Invoke(av)
Complete == \E av \in CompleteArgv : LockFree /\ Invoke(av)
Comment == \E av \in CommentArgv : LockFree /\ Invoke(av)
Add == \E av \in AddArgv : LockFree /\ Invoke(av)
Query == \E av \in QueryArgv : LockFree /\ Report(av)
Validate == \E av \in ValidateArgv : LockFree /\ Invoke(av)

\* the invocation releases the lock and exits
Exit ==
  /\ last # NoLast
  /\ last' = NoLast
  /\ UNCHANGED <<files, procVars>>

Next ==
  \/ Assign \/ Select \/ Grab \/ Release \/ Complete
  \/ Comment \/ Add \/ Query \/ Validate \/ Exit

Spec == Init /\ [][Next]_vars

(* ------------------- ConcSpec: concurrent invocations and the global lock *)
\* a process holds the lock from flock(mode) to flock(LOCK_UN)
Holds(p) == pc[p] \in {"locked", "ran", "committed"}

\* CanLock when flock grants every request (the no-fcntl fallback)
CanLock_NoFlock(p, ex) == TRUE

\* flock on the lock file (fcntl is available): LOCK_EX is granted when no
\* other process holds the lock, LOCK_SH when no other holds it exclusively
CanLock(p, ex) ==
  \A q \in Procs \ {p} : Holds(q) => (~ex /\ ~exclusive[q])

\* main parses the command line and enters task_session(exclusive=...)
Start(p) ==
  /\ pc[p] = "idle"
  /\ \E ex \in BOOLEAN : exclusive' = [exclusive EXCEPT ![p] = ex]
  /\ pc' = [pc EXCEPT ![p] = "waiting"]
  /\ UNCHANGED <<files, last, argv, session, result, serial>>

\* global_lock: flock blocks until the lock is granted
Acquire(p) ==
  /\ pc[p] = "waiting"
  /\ CanLock(p, exclusive[p])
  /\ pc' = [pc EXCEPT ![p] = "locked"]
  /\ UNCHANGED <<files, last, exclusive, argv, session, result, serial>>

AllArgv ==
  AssignArgv \cup SelectArgv \cup GrabArgv \cup ReleaseArgv \cup CompleteArgv
    \cup CommentArgv \cup AddArgv \cup QueryArgv \cup ValidateArgv

\* the command lines the concurrent invocations are given: no force, adds of
\* a plain task, summary and validate for the read-only commands
ConcArgv ==
  {av \in AllArgv :
     /\ av.command \in {"assign", "select", "grab"} => ~av.force
     /\ av.command = "add" =>
          (av.status = "backlog" /\ av.dependencies = <<>> /\ av.conflicts = <<>>)
     /\ av.command \in ReadCommands => av.command \in {"summary", "validate"}}

\* the command lines that make main ask the lock in this mode
ArgvOfMode(ex) == {av \in ConcArgv : ExclusiveFor(av.command) = ex}

\* TaskSession(SDK_ROOT) loads the documents, then the command body runs on
\* the session; serial runs the same command on the one-at-a-time store
Run(p) ==
  /\ pc[p] = "locked"
  /\ \E av \in ArgvOfMode(exclusive[p]) :
       LET r == Body(LoadSession(boardFile, stateFile), av)
           rs == Body(LoadSession(serial.board, serial.state), av)
       IN /\ Len(logFile) + Len(r.session.events) <= MaxLog
          /\ argv' = [argv EXCEPT ![p] = av]
          /\ session' = [session EXCEPT ![p] = r.session]
          /\ result' = [result EXCEPT ![p] = [error |-> r.error, out |-> r.out]]
          /\ serial' = commit(serial, rs.session)
  /\ pc' = [pc EXCEPT ![p] = "ran"]
  /\ UNCHANGED <<files, last, exclusive>>

\* finally: session.commit()
Commit(p) ==
  /\ pc[p] = "ran"
  /\ LET after == commit(Store, session[p])
     IN /\ boardFile' = after.board
        /\ stateFile' = after.state
        /\ logFile' = after.log
  /\ session' = [session EXCEPT ![p] = NoSession]
  /\ pc' = [pc EXCEPT ![p] = "committed"]
  /\ UNCHANGED <<last, exclusive, argv, result, serial>>

\* Unlock that is reached only when the body raised nothing (the unlock
\* after the yield instead of in a finally clause)
Unlock_OnlyOnSuccess(p) ==
  /\ pc[p] = "committed"
  /\ result[p].error = "ok"
  /\ pc' = [pc EXCEPT ![p] = "idle"]
  /\ exclusive' = [exclusive EXCEPT ![p] = FALSE]
  /\ argv' = [argv EXCEPT ![p] = NoArgv]
  /\ result' = [result EXCEPT ![p] = NoResult]
  /\ UNCHANGED <<files, last, session, serial>>

\* finally: flock(LOCK_UN); the process exits
Unlock(p) ==
  /\ pc[p] = "committed"
  /\ pc' = [pc EXCEPT ![p] = "idle"]
  /\ exclusive' = [exclusive EXCEPT ![p] = FALSE]
  /\ argv' = [argv EXCEPT ![p] = NoArgv]
  /\ result' = [result EXCEPT ![p] = NoResult]
  /\ UNCHANGED <<files, last, session, serial>>

ConcNext ==
  \E p \in Procs : Start(p) \/ Acquire(p) \/ Run(p) \/ Commit(p) \/ Unlock(p)

\* the boards the concurrent runs start from: T1 {P0, backlog} and
\* T2 {P1, backlog} unrelated, and T1 depending on T2
ConcBoards ==
  {b \in InitBoards :
     /\ b[1].status = "backlog" /\ b[2].status = "backlog"
     /\ b[1].conflicts = <<>>
     /\ \/ b[1].priority = "P0" /\ b[1].dependencies = <<>>
        \/ b[1].dependencies = <<T2>>}

\* an assignment document that names a task the board does not hold
StaleOverlay(board) == Put(OverlayOf(board), TX, "b")

\* the board where T1 depends on T2 starts with the stale assignment document
ConcInit ==
  /\ boardFile \in ConcBoards
  /\ stateFile = IF boardFile[1].dependencies = <<>>
                 THEN OverlayOf(boardFile) ELSE StaleOverlay(boardFile)
  /\ logFile = <<>>
  /\ InitProcs
  /\ serial = Store

ConcSpec == ConcInit /\ [][ConcNext]_vars

\* an invocation that holds the lock is a synchronous run to completion: a
\* process that is not killed goes on to its body, its commit and its unlock.
\* The runs start from the board where T1 depends on T2.
LiveInit == ConcInit /\ boardFile[1].dependencies = <<T2>>

LiveSpec ==
  /\ LiveInit
  /\ [][ConcNext]_vars
  /\ \A p \in Procs : WF_vars(Run(p)) /\ WF_vars(Commit(p)) /\ WF_vars(Unlock(p))

(* ------------- CrashSpec: one invocation at a time, its commit step by step *)
\* the target of write_json_atomic written in place: it is torn while the
\* write is under way
TargetWhileWriting_InPlace(target, torn) == torn

\* write_json_atomic, first half: the text goes to a temporary file beside
\* the target, which is untouched
TargetWhileWriting(target, torn) == target

\* main under the lock up to the end of the body: last holds the session the
\* body left, the store it was loaded from, the step of commit reached and
\* whether the process was killed
CrashRun ==
  \E av \in ConcArgv :
    LET r == Body(LoadSession(boardFile, stateFile), av) IN
    /\ LockFree
    /\ Len(logFile) + Len(r.session.events) <= MaxLog
    /\ last' = [argv |-> av, error |-> r.error, session |-> r.session,
                before |-> Store, step |-> "ran", killed |-> FALSE]
    /\ UNCHANGED <<files, procVars>>

InCommit == last # NoLast /\ ~last.killed

\* the step of commit after which the assignment document is next
AtState == (last.step = "ran" /\ ~last.session.board_dirty) \/ last.step = "board_done"

\* the step of commit after which the event log is next
AtLog == (AtState /\ ~last.session.state_dirty) \/ last.step = "state_done"

\* write_json_atomic: tmp.write_text
WriteTmp ==
  /\ InCommit
  /\ \/ /\ last.step = "ran" /\ last.session.board_dirty
        /\ boardFile' = TargetWhileWriting(boardFile, TornBoard)
        /\ last' = [last EXCEPT !.step = "board_tmp"]
        /\ UNCHANGED stateFile
     \/ /\ AtState /\ last.session.state_dirty
        /\ stateFile' = TargetWhileWriting(stateFile, TornState)
        /\ last' = [last EXCEPT !.step = "state_tmp"]
        /\ UNCHANGED boardFile
  /\ UNCHANGED <<logFile, procVars>>

\* write_json_atomic: tmp.replace(path)
Rename ==
  /\ InCommit
  /\ \/ /\ last.step = "board_tmp"
        /\ boardFile' = last.session.board
        /\ last' = [last EXCEPT !.step = "board_done"]
        /\ UNCHANGED stateFile
     \/ /\ last.step = "state_tmp"
        /\ stateFile' = last.session.assignments
        /\ last' = [last EXCEPT !.step = "state_done"]
        /\ UNCHANGED boardFile
  /\ UNCHANGED <<logFile, procVars>>

\* commit: the buffered events are appended to the log; commit returns
AppendEvents ==
  /\ InCommit
  /\ AtLog
  /\ logFile' = logFile \o last.session.events
  /\ last' = [last EXCEPT !.step = "committed"]
  /\ UNCHANGED <<boardFile, stateFile, procVars>>

\* the process is killed, before, in or after its commit; nothing runs
\* after it but the readers of the documents it left
Kill ==
  /\ InCommit
  /\ last' = [last EXCEPT !.killed = TRUE]
  /\ UNCHANGED <<files, procVars>>

\* commit has returned: the lock is released and the process exits
Finish ==
  /\ InCommit
  /\ last.step = "committed"
  /\ Exit

CrashNext == CrashRun \/ WriteTmp \/ Rename \/ AppendEvents \/ Kill \/ Finish

CrashInit == InitStore(ConcBoards) /\ InitProcs /\ serial = NoStore

CrashSpec == CrashInit /\ [][CrashNext]_vars

(* -------- MetricsSpec: commands stamped by the wall clock, the metrics pass *)
\* the hours the wall clock shows; it is not monotonic (it can be set back
\* between two invocations)
Hours == 1..3

\* append_log_event stamps the event with now_iso()
Stamped(events, now) ==
  [i \in DOMAIN events |->
     [action |-> events[i].action, task |-> events[i].task,
      agent |-> events[i].agent, note |-> events[i].note,
      previous_owner |-> events[i].previous_owner, timestamp |-> now]]

MetricsArgv ==
  {Argv("assign", T1, "a", FALSE), Argv("assign", T1, "b", TRUE),
   Argv("grab", NoId, "a", FALSE), Argv("release", T1, "", FALSE),
   Argv("complete", T1, "a", FALSE), Argv("complete", T2, "a", FALSE)}

\* a mutating invocation at the hour now
Record ==
  \E av \in MetricsArgv, now \in Hours :
    LET r == Body(LoadSession(boardFile, stateFile), av)
        after == commit(Store, r.session)
    IN /\ LockFree
       /\ Len(logFile) + Len(r.session.events) <= MaxHistory
       /\ boardFile' = after.board
       /\ stateFile' = after.state
       /\ logFile' = logFile \o Stamped(r.session.events, now)
       /\ last' = [argv |-> av, error |-> r.error, out |-> r.out, before |-> Store]
       /\ UNCHANGED procVars

\* the metrics command
Metrics ==
  LET m == compute_metrics(LoadSession(boardFile, stateFile), logFile)
  IN /\ LockFree
     /\ last' = [argv |-> [command |-> "metrics"], error |-> "ok",
                 out |-> m.next_task, before |-> Store,
                 ready_unassigned |-> m.ready_unassigned,
                 cycle_durations |-> m.cycle_durations]
     /\ UNCHANGED <<files, procVars>>

MetricsNext == Record \/ Metrics \/ Exit

\* T1 {P0, backlog} and T2 {P1, backlog}, unrelated, and an empty log
MetricsInit ==
  /\ InitStore({b \in ConcBoards : b[1].dependencies = <<>>})
  /\ InitProcs
  /\ serial = NoStore

MetricsSpec == MetricsInit /\ [][MetricsNext]_vars

(* ------- NoForceSpec: commands without force on a board with no task at work *)
\* T1 lists T2 in its conflicts, T2 lists nothing (the board that
\* `add --conflicts T-002` leaves when it adds T1 to a board that holds T2)
OneWayConflictBoard ==
  <<Task(T1, "backlog", "P1", DEFAULT_OWNER, <<>>, <<T2>>, <<>>),
    Task(T2, "backlog", "P1", DEFAULT_OWNER, <<>>, <<>>, <<>>)>>

\* the boards with no task in_progress or review
IdleBoards ==
  {b \in InitBoards \cup {OneWayConflictBoard} :
     \A i \in DOMAIN b : b[i].status \notin {"in_progress", "review"}}

\* the command lines that do not pass --force
NoForceArgv ==
  {av \in AllArgv : av.command \in {"assign", "select", "grab"} => ~av.force}

Unforced == \E av \in NoForceArgv : LockFree /\ Invoke(av)

NoForceNext == Unforced \/ Exit

NoForceInit == InitStore(IdleBoards) /\ InitProcs /\ serial = NoStore

NoForceSpec == NoForceInit /\ [][NoForceNext]_vars

(* ----------------------- IdSpec: adds on boards with ids of several shapes *)
T5 == <<"T", "-", "0", "0", "5">>
\* a number that is not padded
T7 == <<"T", "-", "7">>
\* the largest number of three digits
T999 == <<"T", "-", "9", "9", "9">>
\* an id of another family
X9 == <<"X", "-", "9">>

IdPool == {T1, T5, T7, T999, TX, X9}

\* the boards of at most MaxBoard unowned backlog tasks with distinct ids of
\* the pool, the empty board among them
IdBoards ==
  {[i \in 1..Len(ids) |->
      Task(ids[i], "backlog", "P1", DEFAULT_OWNER, <<>>, <<>>, <<>>)] :
     ids \in {q \in UNION {[1..n -> IdPool] : n \in 0..MaxBoard} :
                \A i, j \in DOMAIN q : i # j => q[i] # q[j]}}

\* add with a title and no --id
AutoAddArgv == {AddLine("t", NoId, "backlog", <<>>, <<>>)}

\* add with a title and an --id of the pool
IdAddArgv == {AddLine("t", id, "backlog", <<>>, <<>>) : id \in IdPool}

AutoAdd == \E av \in AutoAddArgv : LockFree /\ Invoke(av)

IdAdd == \E av \in IdAddArgv : LockFree /\ Invoke(av)

IdNext == AutoAdd \/ IdAdd \/ Exit

IdInit == InitStore(IdBoards) /\ InitProcs /\ serial = NoStore

IdSpec == IdInit /\ [][IdNext]_vars

(* =============================================================== claims *)
OtherProc(p) == CHOOSE q \in Procs : q # p

\* C1: a process that holds the lock in exclusive mode, or holds it while
\* running a mutating command (assign, select, grab, release, complete,
\* comment, add), is the only holder of the lock; read-only commands hold it
\* in shared mode.
C1_MutualExclusion ==
  \A p \in Procs :
    /\ (Holds(p) /\ (exclusive[p] \/ argv[p].command \in WriteCommands))
         => \A q \in Procs \ {p} : ~Holds(q)
    /\ (Holds(p) /\ argv[p].command \in ReadCommands) => ~exclusive[p]

\* C1 witness: two read-only commands (a validate among them) have both run
\* under the lock at the same time, while holding it in shared mode
C1_SharedHoldersOverlap ==
  \E p \in Procs :
    /\ pc[p] = "ran" /\ argv[p].command = "validate" /\ ~exclusive[p]
    /\ pc[OtherProc(p)] = "ran" /\ argv[OtherProc(p)].command = "summary"

\* C2: between two grab events of the event log that name the same task there
\* is a release event of that task: no task is handed to two grabbers.
C2_NoDoubleGrab ==
  \A i, j \in DOMAIN logFile :
    (i < j /\ logFile[i].action = "grab" /\ logFile[j].action = "grab"
       /\ logFile[i].task = logFile[j].task)
      => \E k \in DOMAIN logFile :
           i < k /\ k < j /\ logFile[k].action = "release"
             /\ logFile[k].task = logFile[i].task

\* C2 witness: two grabs by different agents have committed and took
\* different tasks; the second grabber still holds the lock
C2_TwoGrabsCommitted ==
  /\ Len(logFile) = 2
  /\ logFile[1].action = "grab" /\ logFile[2].action = "grab"
  /\ logFile[1].agent # logFile[2].agent
  /\ logFile[1].task # logFile[2].task
  /\ \E p \in Procs : pc[p] = "committed" /\ argv[p].command = "grab"

\* C3: whenever no mutating invocation stands between its body and its
\* commit, the three documents equal those of the one-at-a-time execution of
\* the same commands, taken in the order they ran under the lock.
C3_NoLostUpdates ==
  (\A p \in Procs : ~(pc[p] = "ran" /\ exclusive[p])) => Store = serial

\* C3 witness: a mutating command has committed while another mutating
\* invocation, started meanwhile, waits for the lock, and an earlier
\* invocation's change is in the log as well
C3_ConcurrentWritersCommitted ==
  \E p \in Procs :
    /\ pc[p] = "committed" /\ exclusive[p] /\ result[p].error = "ok"
    /\ pc[OtherProc(p)] = "waiting" /\ exclusive[OtherProc(p)]
    /\ Len(logFile) = 2
    /\ boardFile # <<>>

(* ------------------------------------ claims about one invocation (Spec) *)
BeforeBoard == last.before.board

OnBoardBefore(id) == \E i \in DOMAIN BeforeBoard : BeforeBoard[i].id = id

TaskBefore(id) == BeforeBoard[CHOOSE i \in DOMAIN BeforeBoard : BeforeBoard[i].id = id]

TaskNow(id) == boardFile[CHOOSE i \in DOMAIN boardFile : boardFile[i].id = id]

\* the effective owner: the overlay entry, else the stored owner
OwnerBefore(id) ==
  IF id \in DOMAIN last.before.state THEN last.before.state[id] ELSE TaskBefore(id).owner

OwnerNow(id) == IF id \in DOMAIN stateFile THEN stateFile[id] ELSE TaskNow(id).owner

\* an invocation has run and not yet exited
Ran(commands) == last.argv.command \in commands

\* the last invocation is assign(T, A) or select(T, A) of a task on the board
IsAssign ==
  /\ Ran({"assign", "select"})
  /\ last.argv.task # NoId
  /\ OnBoardBefore(last.argv.task)

\* some conflict of task t is in_progress or review under an owner that is
\* neither the sentinel nor agent a
ConflictBlocks(t, a) ==
  \E k \in DOMAIN TaskBefore(t).conflicts :
    LET c == TaskBefore(t).conflicts[k] IN
    /\ OnBoardBefore(c)
    /\ TaskBefore(c).status \in {"in_progress", "review"}
    /\ OwnerBefore(c) \notin {DEFAULT_OWNER, a}

AllDependenciesOnBoard(t) ==
  \A k \in DOMAIN TaskBefore(t).dependencies : OnBoardBefore(TaskBefore(t).dependencies[k])

\* the log shows t assigned to an agent other than a and neither released nor
\* completed since
HeldByAnother(log, t, a) ==
  \E i \in DOMAIN log :
    /\ log[i].task = t /\ log[i].action = "assign" /\ log[i].agent # a
    /\ \A j \in DOMAIN log :
         (j > i /\ log[j].task = t) => log[j].action \notin {"release", "complete"}

\* C4: after assign(T, A) succeeds the effective owner of T is A, and while T
\* is assigned to another agent (not released or completed since) no assign
\* or grab of T without force succeeds.
C4_AssignmentExclusivity ==
  /\ (IsAssign /\ last.error = "ok") => OwnerNow(last.argv.task) = last.argv.agent
  /\ (/\ Ran({"assign", "select", "grab"})
      /\ ~last.argv.force /\ last.error = "ok" /\ last.out # NoId)
       => ~HeldByAnother(last.before.log, last.out, last.argv.agent)

\* C5: a command that ends with an error leaves the board document, the
\* assignment document and the event log as they were before the command.
C5_NoPartialCommit ==
  (last # NoLast /\ last.error # "ok") => Store = last.before

\* C5 witness: an assign failed on an unready dependency after an earlier
\* command had changed the store
C5_FailedAfterChange ==
  /\ Ran({"assign"})
  /\ last.error = "DependencyNotReady"
  /\ last.before.log # <<>>

\* C6: the ids of the board are pairwise distinct, and add with an id that is
\* on the board fails with the duplicate-id error, adding no task and no event.
C6_UniqueIds ==
  /\ \A i, j \in DOMAIN boardFile : boardFile[i].id = boardFile[j].id => i = j
  /\ (/\ Ran({"add"}) /\ last.argv.title # ""
      /\ last.argv.id # NoId /\ OnBoardBefore(last.argv.id))
       => /\ last.error = "DuplicateTaskId"
          /\ boardFile = last.before.board
          /\ logFile = last.before.log

\* C6 witness: add of an id of the board was refused on a board that an
\* earlier add had extended
C6_DuplicateRefused ==
  /\ Ran({"add"}) /\ last.error = "DuplicateTaskId"
  /\ Len(boardFile) = 3

\* a candidate that grab skips: a dependency that is not done or review (a
\* missing one included) or a conflict that is in_progress or review
SkippedByGrab(t) ==
  \/ \E k \in DOMAIN TaskBefore(t).dependencies :
       LET d == TaskBefore(t).dependencies[k] IN
       ~(OnBoardBefore(d) /\ TaskBefore(d).status \in {"done", "review"})
  \/ \E k \in DOMAIN TaskBefore(t).conflicts :
       LET c == TaskBefore(t).conflicts[k] IN
       OnBoardBefore(c) /\ TaskBefore(c).status \in {"in_progress", "review"}

\* the positions of the workable candidates that grab does not skip
Takeable ==
  {i \in DOMAIN BeforeBoard :
     /\ BeforeBoard[i].status \in {"ready", "backlog"}
     /\ OwnerBefore(BeforeBoard[i].id) = DEFAULT_OWNER
     /\ ~SkippedByGrab(BeforeBoard[i].id)}

\* position i comes before position j in (priority rank, status rank, index)
SelectedBefore(i, j) ==
  LET pi == priority_rank(BeforeBoard[i])  pj == priority_rank(BeforeBoard[j])
      si == status_rank(BeforeBoard[i])    sj == status_rank(BeforeBoard[j])
  IN pi < pj \/ (pi = pj /\ si < sj) \/ (pi = pj /\ si = sj /\ i < j)

\* the board of Scenario A: T-1 {P0, backlog}, T-2 {P1, backlog}
ScenarioA ==
  <<Task(T1, "backlog", "P0", DEFAULT_OWNER, <<>>, <<>>, <<>>),
    Task(T2, "backlog", "P1", DEFAULT_OWNER, <<>>, <<>>, <<>>)>>

\* C7: grab without force assigns the takeable candidate that is smallest by
\* (priority rank, status rank, declaration index), and none when there is no
\* takeable candidate; on the board of Scenario A the first grab assigns T-1
\* and the grab after it assigns T-2.
C7_SelectionOrder ==
  (Ran({"grab"}) /\ ~last.argv.force) =>
    /\ last.error = "ok"
    /\ Takeable = {} => (last.out = NoId /\ Store = last.before)
    /\ \A i \in Takeable :
         (\A j \in Takeable \ {i} : SelectedBefore(i, j))
           => /\ last.out = BeforeBoard[i].id
              /\ OwnerNow(last.out) = last.argv.agent
              /\ logFile = Append(last.before.log,
                                  [action |-> "grab", task |-> last.out,
                                   agent |-> last.argv.agent, note |-> "auto-grab",
                                   previous_owner |-> DEFAULT_OWNER])
    /\ (BeforeBoard = ScenarioA /\ last.before.log = <<>>) => last.out = T1
    /\ (/\ Len(last.before.log) = 1 /\ last.before.log[1].action = "grab"
        /\ BeforeBoard[2] = ScenarioA[2]
        /\ BeforeBoard[1] = [ScenarioA[1] EXCEPT !.status = "in_progress",
                                                 !.owner = last.before.log[1].agent])
         => last.out = T2

\* C7 witness: Scenario A has run: agent a grabbed T-1, then agent b grabbed T-2
C7_ScenarioAHappened ==
  /\ Ran({"grab"}) /\ ~last.argv.force /\ last.argv.agent = "b" /\ last.out = T2
  /\ Len(logFile) = 2 /\ logFile[1].action = "grab" /\ logFile[1].task = T1
  /\ logFile[1].agent = "a"
  /\ boardFile[1].priority = "P0" /\ boardFile[2].priority = "P1"

\* a dependency of t that is on the board, neither done nor review
UnreadyDependency(t, Excused(_)) ==
  \E k \in DOMAIN TaskBefore(t).dependencies :
    LET d == TaskBefore(t).dependencies[k] IN
    /\ OnBoardBefore(d)
    /\ TaskBefore(d).status \notin {"done", "review"}
    /\ ~Excused(d)

NoneExcused(d) == FALSE

\* the overlay assigns dependency d to the requesting agent
HeldByRequester(d) ==
  d \in DOMAIN last.before.state /\ last.before.state[d] = last.argv.agent

\* the checks that come before the dependency gate pass
ReachesDependencyGate(t) ==
  /\ TaskBefore(t).status # "done"
  /\ ~ConflictBlocks(t, last.argv.agent)
  /\ AllDependenciesOnBoard(t)

\* C8 as claimed: assign without force fails with the dependency-not-ready
\* error whenever a dependency is neither done nor review, whoever holds it.
C8_DependencyGate_AnyHolder ==
  (IsAssign /\ ~last.argv.force /\ ReachesDependencyGate(last.argv.task)
     /\ UnreadyDependency(last.argv.task, NoneExcused))
    => last.error = "DependencyNotReady"

\* C8 amended: assign(T, A) without force fails whenever a dependency of T is
\* neither done nor review and the overlay does not assign it to A; when T is
\* not done, has no blocking conflict and names no missing dependency, the
\* error is dependency-not-ready in that case and the assign succeeds
\* otherwise.
C8_DependencyGate ==
  (IsAssign /\ ~last.argv.force) =>
    /\ UnreadyDependency(last.argv.task, HeldByRequester) => last.error # "ok"
    /\ ReachesDependencyGate(last.argv.task) =>
         last.error = IF UnreadyDependency(last.argv.task, HeldByRequester)
                      THEN "DependencyNotReady" ELSE "ok"

\* C8 witness: Scenario B: T-1 depends on T-2, T-2 was completed, and the
\* assign of T-1 without force succeeded
C8_AssignAfterComplete ==
  /\ IsAssign /\ ~last.argv.force /\ last.error = "ok" /\ last.argv.task = T1
  /\ TaskBefore(T1).dependencies = <<T2>>
  /\ Len(last.before.log) = 1 /\ last.before.log[1].action = "complete"
  /\ last.before.log[1].task = T2

\* C9 as claimed: assign without force fails with the conflict-blocked error
\* exactly when a conflict blocks, and with force it succeeds.
C9_ConflictGate_AnyTask ==
  IsAssign =>
    /\ ~last.argv.force =>
         (last.error = "ConflictBlocked"
            <=> ConflictBlocks(last.argv.task, last.argv.agent))
    /\ (last.argv.force /\ ConflictBlocks(last.argv.task, last.argv.agent))
         => last.error = "ok"

\* C9 amended: for a task T that is not done, assign(T, A) without force fails
\* with the conflict-blocked error exactly when a conflict blocks; with force
\* the assign of a conflict-blocked task succeeds when every dependency id of
\* T is on the board.
C9_ConflictGate ==
  IsAssign =>
    /\ (~last.argv.force /\ TaskBefore(last.argv.task).status # "done") =>
         (last.error = "ConflictBlocked"
            <=> ConflictBlocks(last.argv.task, last.argv.agent))
    /\ (/\ last.argv.force /\ ConflictBlocks(last.argv.task, last.argv.agent)
        /\ AllDependenciesOnBoard(last.argv.task))
         => last.error = "ok"

\* C9 witness: Scenario C: T-1 was assigned to a, and assign(T-2, b) without
\* force was refused with the conflict-blocked error
C9_ConflictRefused ==
  /\ IsAssign /\ ~last.argv.force /\ last.error = "ConflictBlocked"
  /\ last.argv.task = T2 /\ last.argv.agent = "b"
  /\ Len(last.before.log) = 1 /\ last.before.log[1].action = "assign"
  /\ last.before.log[1].task = T1 /\ last.before.log[1].agent = "a"

\* C10 as claimed: assign with force succeeds for every task of the board.
C10_ForceAlwaysSucceeds == (IsAssign /\ last.argv.force) => last.error = "ok"

\* C10 amended: assign with force of a task of the board succeeds whatever
\* the task's status, conflicts and the statuses of its dependencies, when
\* every id of its dependencies list is on the board; it fails with the
\* missing-dependency error, changing nothing, when one is not.
C10_ForceBypass ==
  (IsAssign /\ last.argv.force) =>
    IF AllDependenciesOnBoard(last.argv.task)
    THEN /\ last.error = "ok"
         /\ OwnerNow(last.argv.task) = last.argv.agent
    ELSE last.error = "MissingDependency" /\ Store = last.before

\* C10 witness: a forced assign of a done task succeeded
C10_ForcedDoneTask ==
  /\ IsAssign /\ last.argv.force /\ last.error = "ok"
  /\ TaskBefore(last.argv.task).status = "done"
  /\ TaskNow(last.argv.task).status = "done"

\* the last invocation passed the force override (assign, select and grab
\* are the commands that take one)
UsesForce == Ran({"assign", "select", "grab"}) /\ last.argv.force

\* the last invocation is one of the commands, given its required arguments
\* and aimed at a task of the board whose status is done
AimedAtDone(commands) ==
  /\ Ran(commands)
  /\ last.argv.task # NoId
  /\ Ran({"comment"}) => last.argv.message # ""
  /\ OnBoardBefore(last.argv.task)
  /\ TaskBefore(last.argv.task).status = "done"

\* the last invocation appended exactly this one event to the log
AppendedOne(action) ==
  /\ Len(logFile) = Len(last.before.log) + 1
  /\ SubSeq(logFile, 1, Len(last.before.log)) = last.before.log
  /\ logFile[Len(logFile)].action = action
  /\ logFile[Len(logFile)].task = last.out

\* C11 as claimed: assign, release, complete or comment aimed at a done task
\* fails with the already-complete error unless force is supplied, and
\* leaves the task and the event log unchanged.
C11_AnyMutatingCommand ==
  (AimedAtDone({"assign", "select", "release", "complete", "comment"}) /\ ~UsesForce)
    => /\ last.error = "AlreadyComplete"
       /\ TaskNow(last.argv.task) = TaskBefore(last.argv.task)
       /\ logFile = last.before.log

\* C11 amended: assign (or select) aimed at a done task fails with the
\* already-complete error unless force is supplied, and leaves the three
\* documents unchanged; with force it does not fail with that error.
\* release, complete and comment have no completion check: aimed at a done
\* task they succeed and append their event.
C11_AlreadyComplete ==
  /\ (AimedAtDone({"assign", "select"}) /\ ~UsesForce)
       => (last.error = "AlreadyComplete" /\ Store = last.before)
  /\ (AimedAtDone({"assign", "select"}) /\ UsesForce)
       => last.error # "AlreadyComplete"
  /\ AimedAtDone({"release", "complete", "comment"})
       => (last.error = "ok" /\ AppendedOne(last.argv.command))

\* C11 witness: a task was completed, and the assign of it without force was
\* refused with the already-complete error
C11_DoneTaskRefused ==
  /\ AimedAtDone({"assign"}) /\ ~UsesForce /\ last.error = "AlreadyComplete"
  /\ Len(last.before.log) = 1 /\ last.before.log[1].action = "complete"
  /\ last.before.log[1].task = last.argv.task

\* C12: a task whose status is done before a command that does not use force
\* is still on the board with status done after it; by induction a done task
\* stays done along every sequence of such commands.
C12_DoneIsTerminal ==
  (last # NoLast /\ ~UsesForce) =>
    \A i \in DOMAIN BeforeBoard :
      BeforeBoard[i].status = "done"
        => (i \in DOMAIN boardFile /\ boardFile[i].id = BeforeBoard[i].id
              /\ boardFile[i].status = "done")

\* C12 witness: a done task was released (the command succeeded) and is
\* still done
C12_ReleasedDoneTask ==
  /\ AimedAtDone({"release"}) /\ last.error = "ok"
  /\ TaskNow(last.argv.task).status = "done"
  /\ TaskNow(last.argv.task).owner = DEFAULT_OWNER

\* the positions of the workable candidates: ready or backlog, unowned
WorkableBefore ==
  {i \in DOMAIN BeforeBoard :
     /\ BeforeBoard[i].status \in {"ready", "backlog"}
     /\ OwnerBefore(BeforeBoard[i].id) = DEFAULT_OWNER}

\* no candidate qualifies for the last grab: with force every workable
\* candidate qualifies, without it the ones grab does not skip
NoneQualifies == IF last.argv.force THEN WorkableBefore = {} ELSE Takeable = {}

\* C13: when no candidate qualifies, grab ends normally, reports no task,
\* appends no event and leaves the board and assignment documents unchanged.
C13_GrabNothing ==
  (Ran({"grab"}) /\ NoneQualifies) =>
    /\ last.error = "ok"
    /\ last.out = NoId
    /\ logFile = last.before.log
    /\ boardFile = last.before.board
    /\ stateFile = last.before.state

\* C13 witness: after an earlier command changed the store, a grab without
\* force found workable candidates, skipped each of them and ended normally
C13_AllCandidatesSkipped ==
  /\ Ran({"grab"}) /\ ~last.argv.force
  /\ WorkableBefore # {} /\ Takeable = {}
  /\ last.error = "ok" /\ last.out = NoId
  /\ last.before.log # <<>>

\* the positions of the tasks that list their own id as a dependency
SelfDependent ==
  {i \in DOMAIN BeforeBoard :
     \E k \in DOMAIN BeforeBoard[i].dependencies :
       BeforeBoard[i].dependencies[k] = BeforeBoard[i].id}

IdsUniqueBefore ==
  \A i, j \in DOMAIN BeforeBoard : BeforeBoard[i].id = BeforeBoard[j].id => i = j

\* every reference of the task names a task of the board
ReferencesResolve(task) ==
  /\ \A k \in DOMAIN task.dependencies : OnBoardBefore(task.dependencies[k])
  /\ \A k \in DOMAIN task.conflicts : OnBoardBefore(task.conflicts[k])
  /\ \A k \in DOMAIN task.blockers : OnBoardBefore(task.blockers[k])

\* the integrity scan finds nothing wrong with the task
CleanTask(task) ==
  /\ ReferencesResolve(task)
  /\ \A k \in DOMAIN task.dependencies : task.dependencies[k] # task.id
  /\ task.status = "blocked" => task.blockers # <<>>

\* a self-dependency is the first violation the scan meets: the ids are
\* unique, the tasks before the self-dependent one are clean, and its
\* dependencies listed before its own id are on the board
SelfDependencyFirst ==
  /\ IdsUniqueBefore
  /\ \E i \in SelfDependent :
       /\ \A j \in 1..(i - 1) : CleanTask(BeforeBoard[j])
       /\ \E k \in DOMAIN BeforeBoard[i].dependencies :
            /\ BeforeBoard[i].dependencies[k] = BeforeBoard[i].id
            /\ \A m \in 1..(k - 1) : OnBoardBefore(BeforeBoard[i].dependencies[m])

\* C14 as claimed: validate on a board where a task lists its own id as a
\* dependency fails with the self-dependency error, whatever else the board
\* holds.
C14_SelfDependencyAlways ==
  (Ran({"validate"}) /\ SelfDependent # {}) => last.error = "SelfDependency"

\* C14 amended: list, status, summary, metrics, conflicts, history and
\* validate leave the three documents unchanged whether they succeed or
\* abort; validate on a board where a task lists its own id as a dependency
\* fails, with the self-dependency error when that is the first violation
\* the scan meets.
C14_ReadOnlyCommands ==
  /\ Ran(ReadCommands) => Store = last.before
  /\ (Ran({"validate"}) /\ SelfDependent # {}) => last.error # "ok"
  /\ (Ran({"validate"}) /\ SelfDependencyFirst) => last.error = "SelfDependency"

\* C14 witness: Scenario E: validate ran on a board that held a task
\* depending on itself, which an earlier add had put there, and failed
\* with the self-dependency error
C14_ScenarioE ==
  /\ Ran({"validate"}) /\ last.error = "SelfDependency"
  /\ SelfDependent # {}
  /\ last.before.log # <<>>

\* C15: whenever validate succeeds, the ids of the board are unique, no task
\* depends on itself or conflicts with itself, every dependency, conflict and
\* blocker id names a task of the board, and every blocked task has blockers.
C15_ValidateAcceptsOnlyValid ==
  (Ran({"validate"}) /\ last.error = "ok") =>
    /\ IdsUniqueBefore
    /\ \A i \in DOMAIN BeforeBoard :
         /\ CleanTask(BeforeBoard[i])
         /\ \A k \in DOMAIN BeforeBoard[i].conflicts :
              BeforeBoard[i].conflicts[k] # BeforeBoard[i].id

\* C16: release of a task whose status is ready and whose effective owner is
\* the sentinel leaves the task's status, its stored owner and the assignment
\* overlay unchanged, and appends exactly one release event.
C16_IdempotentRelease ==
  (/\ Ran({"release"}) /\ last.argv.task # NoId /\ OnBoardBefore(last.argv.task)
   /\ TaskBefore(last.argv.task).status = "ready"
   /\ OwnerBefore(last.argv.task) = DEFAULT_OWNER)
    => /\ last.error = "ok"
       /\ TaskNow(last.argv.task).status = "ready"
       /\ TaskNow(last.argv.task).owner = TaskBefore(last.argv.task).owner
       /\ stateFile = last.before.state
       /\ AppendedOne("release")
       /\ logFile[Len(logFile)].agent = DEFAULT_OWNER

\* C16 witness: a task that was released once was released again: the second
\* release found it ready and unowned, and the log holds both release events
C16_ReleasedTwice ==
  /\ Ran({"release"}) /\ last.error = "ok"
  /\ TaskBefore(last.argv.task).status = "ready"
  /\ OwnerBefore(last.argv.task) = DEFAULT_OWNER
  /\ Len(logFile) = 2
  /\ logFile[1].action = "release" /\ logFile[2].action = "release"
  /\ logFile[1].task = logFile[2].task

\* C17: the boards of Init hold no blocked task without blockers; after any
\* sequence of commands every task with status blocked has a non-empty
\* blockers list.
C17_BlockedHasBlockers ==
  \A i \in DOMAIN boardFile :
    boardFile[i].status = "blocked" => boardFile[i].blockers # <<>>

\* the task the last invocation aims at: the one named on the command line,
\* for grab the one it reports
TargetOfLast == IF Ran({"grab"}) THEN last.out ELSE last.argv.task

\* task b is task a but for its status, owner and comments
SameButLifecycle(a, b) ==
  [b EXCEPT !.status = a.status, !.owner = a.owner, !.comments = a.comments] = a

\* C25: no command removes a task, changes an id or the order of the tasks;
\* add leaves the tasks as they were and puts at most one new task at the
\* end; every other command leaves the length, changes nothing but the
\* status, owner and comments of a task, and only of the task it aims at.
C25_TaskLifecycle ==
  last # NoLast =>
    /\ Len(boardFile) >= Len(BeforeBoard)
    /\ \A i \in DOMAIN BeforeBoard : boardFile[i].id = BeforeBoard[i].id
    /\ IF Ran({"add"})
       THEN /\ SubSeq(boardFile, 1, Len(BeforeBoard)) = BeforeBoard
            /\ \/ boardFile = BeforeBoard
               \/ /\ Len(boardFile) = Len(BeforeBoard) + 1
                  /\ boardFile[Len(boardFile)].id = last.out
       ELSE /\ Len(boardFile) = Len(BeforeBoard)
            /\ \A i \in DOMAIN BeforeBoard :
                 \/ boardFile[i] = BeforeBoard[i]
                 \/ /\ BeforeBoard[i].id = TargetOfLast
                    /\ SameButLifecycle(BeforeBoard[i], boardFile[i])

\* C25 witness: an add without --id on a board of two tasks, the second of
\* them changed by an earlier command; the new task T-003 is the third
C25_AddedAtEnd ==
  /\ Ran({"add"}) /\ last.error = "ok"
  /\ last.argv.id = NoId
  /\ Len(BeforeBoard) = 2
  /\ BeforeBoard[2].status = "done"
  /\ Len(boardFile) = 3
  /\ boardFile[3].id = T3

\* C26: the next_task of summary and of metrics is a function of the board
\* and the overlay the command finds, which it leaves as they are: the
\* candidate that grab would not skip and that is smallest by (priority rank,
\* status rank, declaration index), none when there is no such candidate;
\* candidates equal in priority and status are told apart by their index.
C26_GrabDeterminism ==
  Ran({"summary", "metrics"}) =>
    /\ Store = last.before
    /\ Takeable = {} => last.out = NoId
    /\ \A i \in Takeable :
         (\A j \in Takeable \ {i} : SelectedBefore(i, j))
           => last.out = BeforeBoard[i].id
    /\ \A i, j \in Takeable :
         (/\ i < j
          /\ priority_rank(BeforeBoard[i]) = priority_rank(BeforeBoard[j])
          /\ status_rank(BeforeBoard[i]) = status_rank(BeforeBoard[j]))
           => last.out # BeforeBoard[j].id

\* C26 witness: T1 is done; T2 and the added T3 are candidates of the same
\* priority and status, and metrics names T2
C26_TieBrokenByIndex ==
  /\ Ran({"metrics"})
  /\ Len(BeforeBoard) = 3
  /\ BeforeBoard[1].status = "done"
  /\ Takeable = {2, 3}
  /\ priority_rank(BeforeBoard[2]) = priority_rank(BeforeBoard[3])
  /\ status_rank(BeforeBoard[2]) = status_rank(BeforeBoard[3])
  /\ last.out = T2

\* the blocking rule for agent a: task t has a dependency that is not done or
\* review, or a conflicting task at work under another agent
BlockedFor(t, a) ==
  \/ \E k \in DOMAIN TaskBefore(t).dependencies :
       LET d == TaskBefore(t).dependencies[k] IN
       ~(OnBoardBefore(d) /\ TaskBefore(d).status \in {"done", "review"})
  \/ ConflictBlocks(t, a)

\* the positions of the workable candidates that the rule does not block for a
OpenFor(a) == {i \in WorkableBefore : ~BlockedFor(BeforeBoard[i].id, a)}

\* C27: grab(A) without force skips a candidate only when the blocking rule
\* blocks it for A: it assigns to A the first candidate in selection order
\* that has no unfinished dependency and no conflicting task at work under an
\* agent other than A.
C27_BlockingRule ==
  (Ran({"grab"}) /\ ~last.argv.force) =>
    \A i \in OpenFor(last.argv.agent) :
      (\A j \in OpenFor(last.argv.agent) \ {i} : SelectedBefore(i, j))
        => /\ last.error = "ok"
           /\ last.out = BeforeBoard[i].id
           /\ OwnerNow(BeforeBoard[i].id) = last.argv.agent

\* position i is the first of the workable candidates in selection order
FirstWorkable(i) ==
  i \in WorkableBefore /\ \A j \in WorkableBefore \ {i} : SelectedBefore(i, j)

ForcedGrab == Ran({"grab"}) /\ last.argv.force

\* C28 as claimed: grab with force assigns the first workable candidate and
\* ends without error, whatever its dependencies and conflicts.
C28_ForcedGrabAlwaysAssigns ==
  ForcedGrab =>
    \A i \in DOMAIN BeforeBoard :
      FirstWorkable(i) => /\ last.error = "ok"
                          /\ last.out = BeforeBoard[i].id
                          /\ OwnerNow(BeforeBoard[i].id) = last.argv.agent

\* C28 amended: grab with force takes the first workable candidate, blocked
\* or not; it assigns it and ends without error when every id of its
\* dependencies list is on the board, and fails with the missing-dependency
\* error, assigning nothing, when one is not.
C28_ForcedGrab ==
  ForcedGrab =>
    \A i \in DOMAIN BeforeBoard :
      FirstWorkable(i) =>
        IF AllDependenciesOnBoard(BeforeBoard[i].id)
        THEN /\ last.error = "ok"
             /\ last.out = BeforeBoard[i].id
             /\ OwnerNow(BeforeBoard[i].id) = last.argv.agent
             /\ AppendedOne("grab")
        ELSE last.error = "MissingDependency" /\ Store = last.before

\* C28 witness: a forced grab gave agent a the first candidate T1 although
\* its conflicting task is in review under agent b
C28_ForcedPastConflict ==
  /\ ForcedGrab /\ last.error = "ok"
  /\ last.argv.agent = "a"
  /\ FirstWorkable(1)
  /\ ConflictBlocks(T1, "a")
  /\ TaskNow(T1).status = "in_progress"
  /\ OwnerNow(T1) = "a"

\* C29: a grab, with or without force, changes no task but one that was a
\* workable candidate when it ran (status ready or backlog, effective owner
\* the sentinel), and the task it reports as assigned is that one.
C29_GrabTakesWorkable ==
  Ran({"grab"}) =>
    /\ \A i \in DOMAIN BeforeBoard :
         (boardFile[i] # BeforeBoard[i]
            \/ OwnerNow(BeforeBoard[i].id) # OwnerBefore(BeforeBoard[i].id))
           => i \in WorkableBefore /\ last.out = BeforeBoard[i].id
    /\ last.out # NoId =>
         \E i \in WorkableBefore :
           /\ BeforeBoard[i].id = last.out
           /\ BeforeBoard[i].status \in {"ready", "backlog"}
           /\ OwnerBefore(last.out) = DEFAULT_OWNER

\* C29 witness: T1 {P0} is in_progress under agent b; a forced grab by agent
\* a passes over it and takes T2 {P1}
C29_PassedOverHeldTask ==
  /\ ForcedGrab /\ last.error = "ok"
  /\ last.argv.agent = "a"
  /\ TaskBefore(T1).status = "in_progress" /\ OwnerBefore(T1) = "b"
  /\ priority_rank(TaskBefore(T1)) < priority_rank(TaskBefore(T2))
  /\ last.out = T2
  /\ TaskNow(T1) = TaskBefore(T1)
  /\ OwnerNow(T2) = "a"

\* what a grab without force by agent a does on the stored documents
GrabNow(a) == grab_task(LoadSession(boardFile, stateFile), a, "auto-grab", FALSE)

\* C31: the next_task that summary and metrics report is the task that a
\* grab without force run right after them assigns, whoever the agent is;
\* it is absent exactly when that grab assigns nothing, and, for metrics,
\* exactly when the ready-unassigned count is 0.
C31_NextTaskIsGrab ==
  Ran({"summary", "metrics"}) =>
    /\ Store = last.before
    /\ \A a \in Agents :
         /\ GrabNow(a).error = "ok"
         /\ GrabNow(a).out = last.out
         /\ last.out # NoId =>
              /\ Get(GrabNow(a).session.assignments, last.out, DEFAULT_OWNER) = a
              /\ GrabNow(a).session.events # <<>>
         /\ last.out = NoId <=> GrabNow(a).session.events = <<>>
    /\ Ran({"metrics"}) => (last.out = NoId <=> last.ready_unassigned = 0)

\* C31 witness: T1 is first in selection order but waits for T2; metrics
\* names T2 and counts one ready task
C31_SkippedFirstCandidate ==
  /\ Ran({"metrics"})
  /\ FirstWorkable(1)
  /\ SkippedByGrab(T1)
  /\ last.out = T2
  /\ last.ready_unassigned = 1

\* an invocation that leaves the task at position i with this status
MovesTo(i, status) == Next /\ boardFile'[i].status = status

\* no invocation gives a task of the board the status review or blocked
NoMoveToReviewOrBlocked ==
  [][\A i \in DOMAIN boardFile :
       boardFile'[i].status # boardFile[i].status
         => boardFile'[i].status \notin {"review", "blocked"}]_vars

\* C34: the command surface offers the moves of the task state machine:
\* when no invocation is under way and the log has room, some command takes
\* a task that is in_progress to review, and some command takes a task that
\* is not done to blocked.
C34_StatusMovesOffered ==
  (LockFree /\ Len(logFile) < MaxLog) =>
    \A i \in DOMAIN boardFile :
      /\ boardFile[i].status = "in_progress" => ENABLED MovesTo(i, "review")
      /\ boardFile[i].status \notin {"done", "blocked"}
           => ENABLED MovesTo(i, "blocked")

\* C35: from a board whose statuses are all of the vocabulary, after any
\* sequence of commands the status of every task is one of backlog, ready,
\* in_progress, review, blocked, done.
C35_StatusVocabulary ==
  \A i \in DOMAIN boardFile :
    \E k \in DOMAIN STATUS_ORDER : boardFile[i].status = STATUS_ORDER[k]

\* the action a command is logged under: select is logged as assign
LoggedAction(command) == IF command = "select" THEN "assign" ELSE command

\* the last invocation is a state-changing command that succeeded and, when
\* it is a grab, found a task
Mutated ==
  /\ Ran(WriteCommands)
  /\ last.error = "ok"
  /\ Ran({"grab"}) => last.out # NoId

\* the task the last invocation changed: the task named on the command line,
\* the task a grab gave to its agent, the task an add put at the end
AffectedTask ==
  IF Ran({"add"}) THEN boardFile[Len(boardFile)].id
  ELSE IF Ran({"grab"})
       THEN boardFile[CHOOSE i \in DOMAIN boardFile :
                        /\ boardFile[i] # BeforeBoard[i]
                        /\ boardFile[i].owner = last.argv.agent].id
       ELSE last.argv.task

\* C36: an add, assign, select, grab that assigns a task, release, complete
\* or comment that succeeds leaves the log one event longer, the earlier
\* events unchanged before it; the event carries the action of the command
\* (assign for a select) and the id of the affected task. A command that
\* fails, a grab that finds no task and a read-only command leave the log as
\* it was.
C36_OneEventPerMutation ==
  last # NoLast =>
    IF Mutated
    THEN /\ Len(logFile) = Len(last.before.log) + 1
         /\ SubSeq(logFile, 1, Len(last.before.log)) = last.before.log
         /\ logFile[Len(logFile)].action = LoggedAction(last.argv.command)
         /\ logFile[Len(logFile)].task = AffectedTask
    ELSE logFile = last.before.log

\* C36 witness: a select succeeded behind an earlier event and is logged as
\* the second event, an assign
C36_SelectLoggedAsAssign ==
  /\ Ran({"select"}) /\ last.error = "ok"
  /\ Len(last.before.log) = 1
  /\ Len(logFile) = 2
  /\ logFile[2].action = "assign" /\ logFile[2].task = last.argv.task

OwnerChanging == {"assign", "grab", "complete", "release", "add"}

\* the effective owner an owner-changing event leaves to its task
OwnerLeftBy(event) ==
  IF event.action \in {"assign", "grab", "complete"} THEN event.agent ELSE DEFAULT_OWNER

\* the owner an event says its task had before it
OwnerFoundBy(event) ==
  IF event.action = "release" THEN event.agent ELSE event.previous_owner

\* event i is the owner-changing event of the task of event j that came last
\* before event j
PrecedingOwnerChange(log, i, j) ==
  /\ i < j
  /\ log[i].task = log[j].task
  /\ log[i].action \in OwnerChanging
  /\ \A k \in (i + 1)..(j - 1) :
       ~(log[k].task = log[j].task /\ log[k].action \in OwnerChanging)

\* event i is the last owner-changing event of task id
LastOwnerChange(log, i, id) ==
  /\ log[i].task = id
  /\ log[i].action \in OwnerChanging
  /\ \A k \in (i + 1)..Len(log) :
       ~(log[k].task = id /\ log[k].action \in OwnerChanging)

\* the last owner-changing event of every task of the board names the
\* effective owner the task has now
LastEventNamesOwner ==
  \A i \in DOMAIN logFile :
    \A t \in DOMAIN boardFile :
      LastOwnerChange(logFile, i, boardFile[t].id)
        => EffectiveOwner(stateFile, boardFile[t]) = OwnerLeftBy(logFile[i])

C39_GrabNeverFails ==
  (Ran({"grab"}) /\ ~last.argv.force) =>
    /\ last.error = "ok"
    /\ last.out = NoId => Store = last.before
    /\ last.out # NoId =>
         /\ OnBoardBefore(last.out)
         /\ OwnerNow(last.out) = last.argv.agent

\* C39 witness: a grab without force went past the assign gates with a task
\* that has a dependency: the task was assigned to the agent
C39_GrabbedPastTheGates ==
  /\ Ran({"grab"}) /\ ~last.argv.force
  /\ last.error = "ok" /\ last.out # NoId
  /\ TaskBefore(last.out).dependencies # <<>>
  /\ OwnerNow(last.out) = last.argv.agent

(* ------------------------------- claims about sessions and commits (ConcSpec) *)
IdsOf(board) == {board[i].id : i \in DOMAIN board}

\* every key is the id of a task of the board and no entry holds the sentinel
WellFormedOverlay(overlay, board) ==
  /\ DOMAIN overlay \subseteq IdsOf(board)
  /\ \A k \in DOMAIN overlay : overlay[k] # DEFAULT_OWNER

\* the commit of process p wrote the assignment document
WroteOverlay(p) ==
  /\ argv[p].command \in {"assign", "select", "grab", "release", "complete"}
  /\ result[p].error = "ok"
  /\ result[p].out # NoId

\* C18: in every session, once loaded and after the command body, each key of
\* the assignment overlay is the id of a task of the session's board and no
\* entry maps a task to the sentinel owner; the same holds of the assignment
\* document after a commit that wrote it.
C18_OverlayWellFormed ==
  \A p \in Procs :
    /\ pc[p] = "ran" => WellFormedOverlay(session[p].assignments, session[p].board)
    /\ (pc[p] = "committed" /\ WroteOverlay(p))
         => WellFormedOverlay(stateFile, boardFile)

\* C18 witness: starting from an assignment document with a stale entry, a
\* task was assigned and then completed; the commit of complete (which
\* assigns the sentinel) left an empty assignment document
C18_SentinelRemoved ==
  \E p \in Procs :
    /\ pc[p] = "committed" /\ argv[p].command = "complete" /\ result[p].error = "ok"
    /\ boardFile[1].dependencies = <<T2>>
    /\ Len(logFile) = 2 /\ logFile[1].action \in {"assign", "grab"}
    /\ logFile[1].task = logFile[2].task
    /\ DOMAIN stateFile = {}

\* C19: in every step the earlier content of the event log stays an unchanged
\* prefix of the new content, and a commit appends exactly the events the
\* session buffered, in the order they were buffered.
C19_AppendOnly ==
  [][/\ Len(logFile') >= Len(logFile)
     /\ SubSeq(logFile', 1, Len(logFile)) = logFile
     /\ \A p \in Procs :
          (pc[p] = "ran" /\ pc'[p] = "committed")
            => logFile' = logFile \o session[p].events]_vars

\* C19 witness: a comment committed its event behind an event of an earlier
\* command
C19_SecondEventAppended ==
  \E p \in Procs :
    /\ pc[p] = "committed" /\ argv[p].command = "comment" /\ result[p].error = "ok"
    /\ Len(logFile) = 2
    /\ logFile[2].action = "comment" /\ logFile[1].action # "comment"

\* C20: a process that holds the lock goes from the body to one commit and
\* from the commit to the release, whether the body succeeded or raised: the
\* lock is released only after the commit, the documents change only in a
\* commit step, and every process that holds the lock releases it at last.
C20_LockReleased ==
  /\ [][/\ \A p \in Procs :
            /\ pc[p] = "locked" => pc'[p] \in {"locked", "ran"}
            /\ pc[p] = "ran" => pc'[p] \in {"ran", "committed"}
            /\ pc[p] = "committed" => pc'[p] \in {"committed", "idle"}
            /\ (Holds(p) /\ ~Holds(p)') => pc[p] = "committed"
        /\ files' # files =>
             \E q \in Procs : pc[q] = "ran" /\ pc'[q] = "committed"]_vars
  /\ \A p \in Procs : Holds(p) ~> ~Holds(p)

\* C20 witness: a mutating command whose body raised has committed and still
\* holds the lock, while the other process waits for it
C20_FailedBodyCommitted ==
  \E p \in Procs :
    /\ pc[p] = "committed" /\ exclusive[p]
    /\ result[p].error \notin {"ok", "none"}
    /\ pc[OtherProc(p)] = "waiting"

(* ---------------------------------- claims about a killed commit (CrashSpec) *)
\* the store the killed invocation would have left had it finished
AfterCommit == commit(last.before, last.session)

Killed == last # NoLast /\ last.killed

\* what a reader gets from the two documents
BoardRead == read_json(boardFile, TornBoard, <<>>)

StateRead == read_json(stateFile, TornState, EmptyDict)

\* C21: after an invocation was killed, before, at any step of or after its
\* commit, a reader gets the board document either as it was before the
\* command or as the command leaves it, and likewise the assignment document.
C21_DocumentsWhole ==
  Killed =>
    /\ BoardRead \in {last.before.board, AfterCommit.board}
    /\ StateRead \in {last.before.state, AfterCommit.state}

\* C21 witness: an assign was killed between the write of the temporary file
\* of the assignment document and its rename, after the board was replaced
C21_KilledWhileWriting ==
  /\ Killed /\ last.step = "state_tmp"
  /\ last.argv.command = "assign"
  /\ boardFile = AfterCommit.board /\ boardFile # last.before.board
  /\ stateFile = last.before.state /\ stateFile # AfterCommit.state

\* C22: after an invocation was killed, the three documents a session loads
\* are all from before the command or all from after it: the board is never
\* from after the command while the assignment document or the event log is
\* from before it.
C22_ConsistentPair ==
  Killed => (Store = last.before \/ Store = AfterCommit)

(* ---------------------------------- claims about the metrics (MetricsSpec) *)
\* the metrics command has run
RanMetrics == last # NoLast /\ last.argv.command = "metrics"

\* events i < j of the log: an assign or grab of a task and a complete of it
\* stamped earlier
CompletedBeforeClaimed(log, i, j) ==
  /\ i < j
  /\ log[i].action \in {"assign", "grab"}
  /\ log[j].action = "complete"
  /\ log[i].task = log[j].task
  /\ log[j].timestamp < log[i].timestamp

\* C23: every cycle-time sample the metrics pass records is at least 0 hours,
\* whatever the order of the timestamps in the log
C23_CycleTimeNonNegative ==
  RanMetrics => \A i \in DOMAIN last.cycle_durations : last.cycle_durations[i] >= 0

\* C23 witness: T1 claimed at hour 2 and completed at hour 3 and again at
\* hour 1; the pass records the sample of one hour and nothing for the
\* complete stamped before the claim
C23_CompleteStampedBeforeClaim ==
  /\ RanMetrics
  /\ Len(logFile) = 3
  /\ CompletedBeforeClaimed(logFile, 1, 3)
  /\ logFile[2].action = "complete" /\ logFile[2].timestamp = 3
  /\ last.cycle_durations = <<1>>

\* the samples the metrics pass takes from a log
SamplesOf(log) == compute_metrics(LoadSession(boardFile, stateFile), log).cycle_durations

\* the last invocation was complete(T, A) on a task of the board that no
\* earlier event of the log claims (assign or grab)
CompletedUnclaimed ==
  /\ Ran({"complete"})
  /\ OnBoardBefore(last.argv.task)
  /\ \A i \in DOMAIN last.before.log :
       ~(last.before.log[i].action \in {"assign", "grab"}
           /\ last.before.log[i].task = last.argv.task)

\* the forward pass over a sequence of events, from an empty open map
WholePass(events) == CycleDurations(events, 1, EmptyDict, <<>>)

\* the events the metrics pass reads from the stored log
EventsRead == read_history(logFile, HistoryLimit)

\* C24: complete(T, A) on an existing task without an earlier assign or grab
\* event succeeds, sets the status to done, appends one complete event, and
\* the metrics pass takes the same samples from the events it reads with
\* that event as without it
C24_CompleteWithoutClaim ==
  CompletedUnclaimed =>
    /\ last.error = "ok"
    /\ TaskNow(last.argv.task).status = "done"
    /\ AppendedOne("complete")
    /\ logFile[Len(logFile)].agent = last.argv.agent
    /\ WholePass(EventsRead) = WholePass(SubSeq(EventsRead, 1, Len(EventsRead) - 1))

\* C24 witness (Scenario D): T1 was claimed and completed, which gives one
\* sample; then T2, never claimed, is completed
C24_ScenarioD ==
  /\ CompletedUnclaimed
  /\ last.argv.task = T2
  /\ TaskBefore(T2).status = "backlog"
  /\ SamplesOf(last.before.log) = <<1>>
  /\ Len(logFile) = 3

(* ------------------------ claims about runs without force (NoForceSpec) *)
\* task t of the stored board is in_progress or review under an agent
AtWorkUnder(t) ==
  IF TaskNow(t).status \in {"in_progress", "review"} /\ OwnerNow(t) # DEFAULT_OWNER
  THEN {OwnerNow(t)} ELSE {}

\* C30: from a board with no task in_progress or review, after commands that
\* do not use force, no task and a task of its conflicts list are both
\* in_progress or review under two different agents.
C30_ConflictExclusion ==
  \A i \in DOMAIN boardFile : \A k \in DOMAIN boardFile[i].conflicts :
    LET t == boardFile[i].id
        c == boardFile[i].conflicts[k]
    IN (\E j \in DOMAIN boardFile : boardFile[j].id = c)
         => \A a \in AtWorkUnder(t) : \A b \in AtWorkUnder(c) : a = b

\* event j of the log is a complete of a task whose entry an earlier
\* complete or release has closed: no assign or grab of the task lies
\* between that event and j
CompleteOfClosedTask(log, j) ==
  /\ log[j].action = "complete"
  /\ \E i \in 1..(j - 1) :
       /\ log[i].task = log[j].task
       /\ log[i].action \in {"complete", "release"}
       /\ \A k \in (i + 1)..(j - 1) :
            ~(log[k].task = log[j].task /\ log[k].action \in {"assign", "grab"})

\* the assign and grab events of a log
ClaimEvents(log) == {i \in DOMAIN log : log[i].action \in {"assign", "grab"}}

\* C32: the pass over the events it reads pairs each assign or grab with at
\* most one complete: the samples are no more than the assign and grab
\* events, and a complete of a task whose entry was closed by a complete or
\* a release, with no assign or grab since, adds no sample.
C32_ReferenceFold ==
  RanMetrics =>
    /\ last.cycle_durations = WholePass(EventsRead)
    /\ Len(last.cycle_durations) <= Cardinality(ClaimEvents(EventsRead))
    /\ \A j \in DOMAIN EventsRead :
         CompleteOfClosedTask(EventsRead, j)
           => WholePass(SubSeq(EventsRead, 1, j))
                = WholePass(SubSeq(EventsRead, 1, j - 1))

\* C33: the metrics pass replays every event of the log: its samples are
\* those of the forward pass over the whole log, so a complete is paired with
\* the last assign or grab of its task however many events follow that one.
C33_WholeLogReplayed ==
  RanMetrics => last.cycle_durations = WholePass(logFile)

(* ------------------------------------------ claims about generated ids (IdSpec) *)
\* the numbers the ids of IdSpec can carry: T-999 and one more per add
MaxSuffix == 999 + MaxLog

\* the decimal numbers the ids of the board carry after "T-", written with
\* any number of leading zeros
NumericSuffixes(board) ==
  {n \in 0..MaxSuffix :
     \E i \in DOMAIN board : \E w \in 1..4 :
       board[i].id = <<"T", "-">> \o ZeroPad(Decimal(n), w)}

\* the largest of them, 0 when there is none
LargestSuffix(board) ==
  IF NumericSuffixes(board) = {} THEN 0
  ELSE CHOOSE n \in NumericSuffixes(board) : \A m \in NumericSuffixes(board) : m <= n

\* text is the number n in decimal digits, filled with zeros on the left to
\* three digits when it has fewer
PaddedToThree(text, n) ==
  LET digits == Decimal(n)
      fill == Len(text) - Len(digits)
  IN /\ Len(text) = IF Len(digits) < 3 THEN 3 ELSE Len(digits)
     /\ \A k \in 1..fill : text[k] = "0"
     /\ SubSeq(text, fill + 1, Len(text)) = digits

\* the last invocation is an add with a title and no --id
AutoAdded == Ran({"add"}) /\ last.argv.id = NoId /\ last.argv.title # ""

\* C40: an add without an explicit id does not fail with the duplicate-id
\* error (it succeeds); the id it generates is "T-" followed by one more than
\* the largest numeric suffix among the T- ids of the board (1 when there is
\* none), padded to three digits; the id is different from every id the board
\* held, and it is the id of the task the add appended.
C40_AutoGeneratedId ==
  AutoAdded =>
    /\ last.error = "ok"
    /\ Len(last.out) > 2
    /\ SubSeq(last.out, 1, 2) = <<"T", "-">>
    /\ PaddedToThree(SubSeq(last.out, 3, Len(last.out)),
                     LargestSuffix(BeforeBoard) + 1)
    /\ \A i \in DOMAIN BeforeBoard : BeforeBoard[i].id # last.out
    /\ boardFile[Len(boardFile)].id = last.out

\* C40 witness: the board held T-7, whose number is not padded, and T-x,
\* whose suffix is no number; the add generated T-008
C40_NextAfterUnpadded ==
  /\ AutoAdded /\ last.error = "ok"
  /\ \E i \in DOMAIN BeforeBoard : BeforeBoard[i].id = T7
  /\ \E i \in DOMAIN BeforeBoard : BeforeBoard[i].id = TX
  /\ last.out = <<"T", "-", "0", "0", "8">>

====
